---- MODULE Spec2Model ----
(***************************************************************************)
(* Model of the aristo_bites content pipeline.                             *)
(*                                                                         *)
(* Part 1: the RAG fan-out / fan-in workflow of src/agentic_rag.py         *)
(* (RAGWorkflow: generate_sub_questions -> query_llama_cloud ->            *)
(* combine_answers), run by the llama_index workflow engine: one FIFO      *)
(* queue per step, every event a step returns or sends is put on the       *)
(* queue of each step that accepts its type, a step with num_workers = k   *)
(* has k tasks taking events from its queue, and the run ends when the     *)
(* engine's final step takes a StopEvent or when a step raises.  No step   *)
(* of the workflow awaits anything, so an invocation of a step takes its   *)
(* event, runs and hands its answer to the engine without another task     *)
(* running in between: each invocation is one action.                      *)
(*                                                                         *)
(* Text is modelled as a sequence of one-character strings, so that        *)
(* formatting and joining are real concatenations.                         *)
(*                                                                         *)
(* Part 2: process_query of src/agentic_rag.py around one workflow run.    *)
(*                                                                         *)
(* Part 3: generate_luma_video and poll_generation of src/img_to_video.py: *)
(* a generation job is created, polled until it is completed or failed or  *)
(* the attempts are used up, and read once more; tenacity runs the whole   *)
(* function again when it raises.                                          *)
(*                                                                         *)
(* Part 4: generate_image (src/text_to_image.py) and talking_head          *)
(* (src/talking_head.py), one replicate.run call per attempt of the retry  *)
(* decorator.                                                              *)
(*                                                                         *)
(* Part 5: the text built by combine_answers, read back by a parser that   *)
(* splits on the "Q: " / "A: " markers.                                    *)
(*                                                                         *)
(* Part 6: two process_query calls in flight at once, each with its own    *)
(* workflow object and its own run context.                                *)
(*                                                                         *)
(* Part 7: format_timestamp and write_srt (src/transcription.py).           *)
(*                                                                         *)
(* Part 8: split_script and extract_descriptions                           *)
(* (src/structured_output_model.py).                                       *)
(*                                                                         *)
(* Part 9: process_main_video, and Part 10: generate_final_video           *)
(* (src/process_video.py).                                                 *)
(*                                                                         *)
(* Each part has its own variables and its own specification; the          *)
(* variables of the other parts stay at their initial value.               *)
(***************************************************************************)
EXTENDS Integers, Sequences, FiniteSets, TLC

\* ------------------------------------------------------------------ bounds
MaxNumQuestions == 3

\* ------------------------------------------------------- program constants
NumWorkers_Four == 3 + 1

\* @step(num_workers=3) of query_llama_cloud
NumWorkers == 3

\* img_to_video.py
MAX_ATTEMPTS == 30

LumaStopAfterAttempt_Six == 5 + 1

\* stop_after_attempt(5) of generate_luma_video
LumaStopAfterAttempt == 5

\* stop_after_attempt(3) of extend_video
ExtendStopAfterAttempt == 3

\* ------------------------------------------------------------------- text
EmptyStr == << >>

\* the question texts a completion response is drawn from ("" included)
QuestionTexts == { EmptyStr, <<"a">>, <<"b">> }

\* str(response) of a retrieval that succeeds
ResponseTexts == { <<"x">> }

\* str(e) of a retrieval that raises
ExceptionTexts == { <<"e">> }

UnknownQuestion ==
    <<"U","n","k","n","o","w","n"," ","Q","u","e","s","t","i","o","n">>

EmptyQueryError ==
    <<"E","r","r","o","r",":"," ","E","m","p","t","y"," ","q","u","e","r","y">>

QueryErrorPrefix ==
    <<"E","r","r","o","r"," ","q","u","e","r","y","i","n","g"," ",
      "L","l","a","m","a","C","l","o","u","d",":"," ">>

\* f"Error querying LlamaCloud: {str(e)}"
QueryErrorText(msg) == QueryErrorPrefix \o msg

\* f"Q: {event.question}\nA: {event.sub_answer}"
FormatEntry(event) ==
    <<"Q", ":", " ">> \o event.question \o <<"\n", "A", ":", " ">> \o event.sub_answer

\* sep.join(parts)
RECURSIVE Join(_, _)
Join(sep, parts) ==
    IF parts = << >> THEN << >>
    ELSE IF Len(parts) = 1 THEN parts[1]
    ELSE parts[1] \o sep \o Join(sep, Tail(parts))

CombinedAnswer_SingleNewline(events) ==
    Join(<<"\n">>, [i \in 1..Len(events) |-> FormatEntry(events[i])])

\* "\n\n".join([f"Q: ...\nA: ..." for event in result])
CombinedAnswer(events) ==
    Join(<<"\n", "\n">>, [i \in 1..Len(events) |-> FormatEntry(events[i])])

\* sub is a contiguous part of s (Python's `sub in s`)
Contains(s, sub) ==
    \E i \in 0..(Len(s) - Len(sub)) :
        \A j \in 1..Len(sub) : s[i + j] = sub[j]

\* number of positions of seq holding x
Count(seq, x) == Cardinality({ i \in 1..Len(seq) : seq[i] = x })

\* ----------------------------------------------------------------- events
\* SubQuestionsEvent(questions=[SubQuestion(question=q), ...])
SubQuestionsEvent(qs) == [questions |-> qs]

\* SubAnswerEvent(question=q, sub_answer=a)
SubAnswerEvent(q, a) == [question |-> q, sub_answer |-> a]

\* a worker of query_llama_cloud that has taken no event yet
Idle == [idle |-> TRUE]

\* ValueError(f"Expected {num_questions} sub-questions, but got {len(sub_questions)}")
CountMismatch(n, m) == [exc |-> "ValueError", expected |-> n, got |-> m]

NoError == [exc |-> "none"]
NoResult == [none |-> TRUE]

\* ------------------------------------------------------------------ state
VARIABLES
    num_questions,   \* RAGWorkflow.num_questions
    completion,      \* texts of parsed_response.questions, as the service returns them
    status,          \* "start" | "running" | "complete" | "failed"
    error,           \* the exception that failed the run
    qQueue,          \* queue of query_llama_cloud (SubQuestionsEvent)
    workers,         \* per task of query_llama_cloud: the event it took last
    aQueue,          \* queue of combine_answers (SubAnswerEvent)
    events_buffer,   \* ctx._events_buffer[SubAnswerEvent]
    sQueue,          \* queue of the engine's final step (StopEvent results)
    result,          \* value returned by workflow.run
    \* history of the run
    llm_calls,       \* completion requests made
    sub_questions,   \* the list built at line 74, once validated
    sent,            \* events passed to ctx.send_event by generate_sub_questions
    delivered,       \* SubQuestionsEvents put on the queue of query_llama_cloud
    handled,         \* SubQuestionsEvents taken by a query_llama_cloud worker, in order
    queried,         \* queries made to the retrieval service, in order
    answered,        \* [ev, outcome, ans]: what query_llama_cloud returned for ev
    arrivals,        \* SubAnswerEvents received by combine_answers, in order
    stops,           \* StopEvent results emitted by combine_answers, in order
    stopsAt          \* Len(arrivals) at each StopEvent emission

\* process_query
VARIABLES
    env_key,         \* os.getenv("LLAMAINDEX_API_KEY")
    pq,              \* "called" | "running" | "returned" | "raised"
    pq_value,        \* what process_query returned, or the exception it raised
    clients          \* the clients constructed by process_query, in order

pqVars == << env_key, pq, pq_value, clients >>

\* generate_luma_video
VARIABLES
    lm_fn,           \* "generate_luma_video" | "extend_video"
    lm_pc,           \* "idle" | "call" | "poll" | "sleep" | "final" | "returned" | "raised"
    lm_try,          \* attempt number of the retry decorator, from 1
    lm_jobs,         \* client.generations.create calls made by this call
    lm_attempt,      \* `attempt` of the loop of poll_generation
    lm_polls,        \* status queries made by poll_generation for the current job
    lm_proc,         \* of these, the ones that reported a non-terminal state
    lm_errs,         \* of these, the ones that raised
    lm_lastPoll,     \* the last status poll_generation read for the current job
    lm_exit,         \* how poll_generation ended for the current job
    lm_final,        \* state read by the status query after poll_generation
    lm_exc,          \* the exception that ended the current attempt
    lm_prev_exit,    \* lm_exit of the attempt before the current one
    lm_value         \* asset returned, or exception raised, by generate_luma_video

lumaVars == << lm_fn, lm_pc, lm_try, lm_jobs, lm_attempt, lm_polls, lm_proc, lm_errs,
               lm_lastPoll, lm_exit, lm_final, lm_exc, lm_prev_exit, lm_value >>

\* generate_image / talking_head
VARIABLES
    rt_fn,           \* "generate_image" | "talking_head"
    rt_pc,           \* "idle" | "call" | "returned" | "raised"
    rt_try,          \* attempt number of the retry decorator, from 1
    rt_calls,        \* replicate.run calls made
    rt_outcomes,     \* what each replicate.run call did, in order
    rt_value         \* value returned, or exception raised, to the caller

retryVars == << rt_fn, rt_pc, rt_try, rt_calls, rt_outcomes, rt_value >>

\* the combined text and its parser
VARIABLES
    ct_pc,           \* "idle" | "input" | "combined" | "parsed"
    ct_events,       \* the SubAnswerEvents collected by combine_answers
    ct_text,         \* the combined text
    ct_parsed        \* the pairs the parser reads from the text

textVars == << ct_pc, ct_events, ct_text, ct_parsed >>

\* two process_query calls; a context is named after the run it was made for
VARIABLES
    tr_n,            \* num_questions of the workflow of each run
    tr_status,       \* per run: "start" | "running" | "complete"
    tr_q,            \* per context: queue of query_llama_cloud
    tr_busy,         \* per context and task of query_llama_cloud: the event it took last
    tr_at,           \* per context: the task standing in query_engine.query, 0 for none
    tr_aq,           \* per context: queue of combine_answers
    tr_buf,          \* per context: ctx._events_buffer[SubAnswerEvent]
    tr_stop,         \* per context: queue of the engine's final step
    tr_result        \* per run: value returned by workflow.run

twoVars == << tr_n, tr_status, tr_q, tr_busy, tr_at, tr_aq, tr_buf, tr_stop, tr_result >>

\* write_srt
VARIABLES
    sr_pc,           \* "idle" | "writing" | "closed"
    sr_segments,     \* result['segments'], times in whole milliseconds
    sr_i,            \* segments written so far
    sr_file          \* the blocks written to the SRT file, in order

srtVars == << sr_pc, sr_segments, sr_i, sr_file >>

\* split_script and extract_descriptions
VARIABLES
    sp_pc,           \* "idle" | "call" | "scenes" | "returned" | "raised"
    sp_script,       \* the script text
    sp_num,          \* num_images
    sp_parts,        \* script_parts
    sp_scenes,       \* the scenes appended so far
    sp_value         \* ScriptAnalysis returned, or exception raised

splitVars == << sp_pc, sp_script, sp_num, sp_parts, sp_scenes, sp_value >>

\* process_main_video
VARIABLES
    mv_pc,           \* position in process_main_video
    mv_script,       \* the script text
    mv_duration,     \* audio_duration, in milliseconds
    mv_num_images,   \* num_images
    mv_scenes,       \* script_analysis.scenes
    mv_i,            \* index of the scene being handled, from 1
    mv_log,          \* the calls made for the scenes, in order
    mv_video_paths,  \* video_paths
    mv_combined,     \* the list passed to combine_videos
    mv_value         \* path returned, or exception raised

mainVars == << mv_pc, mv_script, mv_duration, mv_num_images, mv_scenes, mv_i,
               mv_log, mv_video_paths, mv_combined, mv_value >>

\* generate_final_video
VARIABLES
    fv_pc,           \* position of generate_final_video
    fv_th,           \* state of talking_head_task
    fv_seen,         \* where main_video_task stood at each step of talking_head_task
    fv_th_value,     \* result of talking_head_task
    fv_transcribed,  \* the file generate_transcription left: "none" | "good" | "partial" | "missing"
    fv_log,          \* the stages started after the gather, in order
    fv_combined,     \* the list passed to combine_videos
    fv_uploaded,     \* the URLs upload_file_to_r2 has returned
    fv_cleaned,      \* the temporary files the clean-up loop has deleted
    fv_value         \* URL returned, or exception raised

finalVars == << fv_pc, fv_th, fv_seen, fv_th_value, fv_transcribed, fv_log,
                fv_combined, fv_uploaded, fv_cleaned, fv_value >>

\* the variables of the video pipeline
videoVars == << srtVars, splitVars, mainVars, finalVars >>

\* the variables outside the workflow run and process_query
outsideRag == << lumaVars, retryVars, textVars, twoVars, videoVars >>

\* the variables outside the workflow run
exceptRag == << pqVars, outsideRag >>

vars == << num_questions, completion, status, error, qQueue, workers, aQueue,
           events_buffer, sQueue, result, llm_calls, sub_questions, sent,
           delivered, handled, queried, answered, arrivals, stops, stopsAt >>

history == << llm_calls, sub_questions, sent, delivered, handled, queried,
              answered, arrivals, stops, stopsAt >>

\* the variables outside generate_luma_video
exceptLuma == << vars, pqVars, retryVars, textVars, twoVars, videoVars >>

\* the variables outside generate_image / talking_head
exceptRetry == << vars, pqVars, lumaVars, textVars, twoVars, videoVars >>

\* the variables outside the combined text and its parser
exceptText == << vars, pqVars, lumaVars, retryVars, twoVars, videoVars >>

\* the variables outside the two concurrent runs
exceptTwo == << vars, pqVars, lumaVars, retryVars, textVars, videoVars >>

\* the variables outside the video pipeline
exceptVideo == << vars, pqVars, lumaVars, retryVars, textVars, twoVars >>

\* the variables outside write_srt
exceptSrt == << exceptVideo, splitVars, mainVars, finalVars >>

\* the variables outside split_script and extract_descriptions
exceptSplit == << exceptVideo, srtVars, mainVars, finalVars >>

\* the variables outside process_main_video
exceptMain == << exceptVideo, srtVars, splitVars, finalVars >>

\* the variables outside generate_final_video
exceptFinal == << exceptVideo, srtVars, splitVars, mainVars >>

\* all sequences over S of length at most n
SeqsUpTo(S, n) == UNION { [1..k -> S] : k \in 0..n }

\* os.getenv of a variable that is not set (None; no text holds this element)
NoKey == << "None" >>

\* process_query has built its clients and the workflow and awaits workflow.run
PqStarted ==
    /\ env_key = <<"k">>
    /\ pq = "running"
    /\ pq_value = NoResult
    /\ clients = << "LlamaCloudIndex", "OpenAI" >>

NoStatus == [state |-> "none", failure_reason |-> << >>]
NoException == [exc |-> "none"]

\* generate_luma_video has not been called
LumaIdle ==
    /\ lm_fn = "generate_luma_video"
    /\ lm_pc = "idle"
    /\ lm_try = 0
    /\ lm_jobs = 0
    /\ lm_attempt = 0
    /\ lm_polls = 0
    /\ lm_proc = 0
    /\ lm_errs = 0
    /\ lm_lastPoll = NoStatus
    /\ lm_exit = "none"
    /\ lm_final = "none"
    /\ lm_exc = NoException
    /\ lm_prev_exit = "none"
    /\ lm_value = NoResult

\* neither generate_image nor talking_head has been called
RetryIdle ==
    /\ rt_fn = "generate_image"
    /\ rt_pc = "idle"
    /\ rt_try = 0
    /\ rt_calls = 0
    /\ rt_outcomes = << >>
    /\ rt_value = NoResult

\* no text is being combined or parsed
TextIdle ==
    /\ ct_pc = "idle"
    /\ ct_events = << >>
    /\ ct_text = << >>
    /\ ct_parsed = << >>

Runs == {1, 2}

\* no pair of concurrent runs exists
TwoIdle ==
    /\ tr_n = [r \in Runs |-> 1]
    /\ tr_status = [r \in Runs |-> "idle"]
    /\ tr_q = [c \in Runs |-> << >>]
    /\ tr_busy = [c \in Runs |-> [w \in 1..NumWorkers |-> Idle]]
    /\ tr_at = [c \in Runs |-> 0]
    /\ tr_aq = [c \in Runs |-> << >>]
    /\ tr_buf = [c \in Runs |-> << >>]
    /\ tr_stop = [c \in Runs |-> << >>]
    /\ tr_result = [r \in Runs |-> NoResult]

\* write_srt has not been called
SrtIdle ==
    /\ sr_pc = "idle"
    /\ sr_segments = << >>
    /\ sr_i = 0
    /\ sr_file = << >>

\* extract_descriptions has not been called
SplitIdle ==
    /\ sp_pc = "idle"
    /\ sp_script = << >>
    /\ sp_num = 1
    /\ sp_parts = << >>
    /\ sp_scenes = << >>
    /\ sp_value = NoResult

\* process_main_video has not been called
MainIdle ==
    /\ mv_pc = "idle"
    /\ mv_script = << >>
    /\ mv_duration = 0
    /\ mv_num_images = 0
    /\ mv_scenes = << >>
    /\ mv_i = 0
    /\ mv_log = << >>
    /\ mv_video_paths = << >>
    /\ mv_combined = << >>
    /\ mv_value = NoResult

\* generate_final_video has not been called
FinalIdle ==
    /\ fv_pc = "idle"
    /\ fv_th = "idle"
    /\ fv_seen = << >>
    /\ fv_th_value = NoResult
    /\ fv_transcribed = "none"
    /\ fv_log = << >>
    /\ fv_combined = << >>
    /\ fv_uploaded = << >>
    /\ fv_cleaned = << >>
    /\ fv_value = NoResult

\* no part of the video pipeline is running
VideoIdle == SrtIdle /\ SplitIdle /\ MainIdle /\ FinalIdle

\* the parts outside the workflow run and process_query are not running
IdleOutsideRag == LumaIdle /\ RetryIdle /\ TextIdle /\ TwoIdle /\ VideoIdle

\* a workflow configured for N >= 1 questions, about to handle its StartEvent;
\* the completion service will answer with any list of question texts
Init ==
    /\ PqStarted
    /\ IdleOutsideRag
    /\ num_questions \in 1..MaxNumQuestions
    /\ completion \in SeqsUpTo(QuestionTexts, MaxNumQuestions + 1)
    /\ status = "start"
    /\ error = NoError
    /\ qQueue = << >>
    /\ workers = [w \in 1..NumWorkers |-> Idle]
    /\ aQueue = << >>
    /\ events_buffer = << >>
    /\ sQueue = << >>
    /\ result = NoResult
    /\ llm_calls = 0
    /\ sub_questions = << >>
    /\ sent = 0
    /\ delivered = 0
    /\ handled = << >>
    /\ queried = << >>
    /\ answered = << >>
    /\ arrivals = << >>
    /\ stops = << >>
    /\ stopsAt = << >>

\* ------------------------------------------------- generate_sub_questions
\* variant: the bundle is put on the queue before the single questions
FanOut_BundleFirst(qs) ==
    << SubQuestionsEvent(qs) >> \o [i \in 1..Len(qs) |-> SubQuestionsEvent(<<qs[i]>>)]

\* the events the step puts on the queue of query_llama_cloud: one per
\* question through ctx.send_event, then the returned bundle
FanOut(qs) ==
    [i \in 1..Len(qs) |-> SubQuestionsEvent(<<qs[i]>>)] \o << SubQuestionsEvent(qs) >>

\* variant: the check lets a response with extra questions through
CountMatches_AtLeast(qs, n) == Len(qs) >= n

\* len(sub_questions) != self.num_questions is false
CountMatches(qs, n) == Len(qs) = n

generate_sub_questions ==
    /\ status = "start"
    /\ llm_calls' = llm_calls + 1
    /\ IF ~CountMatches(completion, num_questions)
       THEN /\ status' = "failed"
            /\ error' = CountMismatch(num_questions, Len(completion))
            /\ UNCHANGED << qQueue, sub_questions, sent, delivered >>
       ELSE /\ status' = "running"
            /\ sub_questions' = completion
            /\ qQueue' = qQueue \o FanOut(completion)
            /\ sent' = Len(completion)
            /\ delivered' = delivered + Len(FanOut(completion))
            /\ UNCHANGED error
    /\ UNCHANGED << num_questions, completion, workers, aQueue, events_buffer,
                    sQueue, result, handled, queried, answered, arrivals,
                    stops, stopsAt >>
    /\ UNCHANGED exceptRag

\* ------------------------------------------------------ query_llama_cloud
\* query = ev.questions[0].question
QueryOf(ev) == ev.questions[1]

\* variant: the empty-query guard is missing
IsEmptyQuery_Never(query) == FALSE

\* `not query`
IsEmptyQuery(query) == query = EmptyStr

\* variant: the canned answer keeps the (empty) question text
EmptyQueryAnswer_Echo == SubAnswerEvent(EmptyStr, EmptyQueryError)

\* SubAnswerEvent(question="Unknown Question", sub_answer="Error: Empty query")
EmptyQueryAnswer == SubAnswerEvent(UnknownQuestion, EmptyQueryError)

\* the outcome recorded for an event that never reached the retrieval service
NotQueried == [raised |-> FALSE, text |-> << >>, skipped |-> TRUE]

\* the retrieval call returns str(response) = text, or raises with str(e) = text
RetrievalOutcomes ==
    [raised : {FALSE}, text : ResponseTexts, skipped : {FALSE}]
        \cup [raised : {TRUE}, text : ExceptionTexts, skipped : {FALSE}]

\* variant: the except branch answers like the empty-query branch, losing the
\* question and the failure message
QueryAnswer_Canned(query, outcome) ==
    IF outcome.raised
    THEN SubAnswerEvent(UnknownQuestion, QueryErrorPrefix)
    ELSE SubAnswerEvent(query, outcome.text)

\* the answer of the step once the retrieval call has returned or raised
QueryAnswer(query, outcome) ==
    IF outcome.raised
    THEN SubAnswerEvent(query, QueryErrorText(outcome.text))
    ELSE SubAnswerEvent(query, outcome.text)

\* str(e) of a retrieval failure, as the exception that would fail the run
RetrievalError(text) == [exc |-> "Exception", text |-> text]

\* the num_workers tasks of a step run the same loop on the same queue and
\* are told apart by nothing but their number: they are numbered in the
\* order in which they take their first event
FirstUse(ws, w) == \A v \in DOMAIN ws : v < w => ws[v] # Idle

\* variant: no try/except around the retrieval call, a raise fails the run
query_llama_cloud_Propagates(w) ==
    /\ status = "running"
    /\ qQueue # << >>
    /\ FirstUse(workers, w)
    /\ LET ev == Head(qQueue)
           query == QueryOf(ev)
       IN  /\ qQueue' = Tail(qQueue)
           /\ handled' = Append(handled, ev)
           /\ workers' = [workers EXCEPT ![w] = ev]
           /\ IF IsEmptyQuery(query)
              THEN /\ aQueue' = Append(aQueue, EmptyQueryAnswer)
                   /\ answered' = Append(answered,
                         [ev |-> ev, outcome |-> NotQueried, ans |-> EmptyQueryAnswer])
                   /\ UNCHANGED << queried, status, error >>
              ELSE \E outcome \in RetrievalOutcomes :
                      LET ans == QueryAnswer(query, outcome)
                      IN  /\ queried' = Append(queried, query)
                          /\ IF outcome.raised
                             THEN /\ status' = "failed"
                                  /\ error' = RetrievalError(outcome.text)
                                  /\ UNCHANGED << aQueue, answered >>
                             ELSE /\ aQueue' = Append(aQueue, ans)
                                  /\ answered' = Append(answered,
                                        [ev |-> ev, outcome |-> outcome, ans |-> ans])
                                  /\ UNCHANGED << status, error >>
    /\ UNCHANGED << num_questions, completion, events_buffer,
                    sQueue, result, llm_calls, sub_questions, sent, delivered,
                    arrivals, stops, stopsAt >>
    /\ UNCHANGED exceptRag

\* one invocation of query_llama_cloud, lines 86-97, by the task w of the
\* step: it takes the next event of the queue; an empty query is answered on
\* the spot, any other query is sent to the retrieval service, which returns
\* or raises; the answer is put on the queue of combine_answers.  The
\* coroutine awaits nothing, so no other task runs before its answer is put.
query_llama_cloud(w) ==
    /\ status = "running"
    /\ qQueue # << >>
    /\ FirstUse(workers, w)
    /\ LET ev == Head(qQueue)
           query == QueryOf(ev)
       IN  /\ qQueue' = Tail(qQueue)
           /\ handled' = Append(handled, ev)
           /\ workers' = [workers EXCEPT ![w] = ev]
           /\ IF IsEmptyQuery(query)
              THEN /\ aQueue' = Append(aQueue, EmptyQueryAnswer)
                   /\ answered' = Append(answered,
                         [ev |-> ev, outcome |-> NotQueried, ans |-> EmptyQueryAnswer])
                   /\ UNCHANGED queried
              ELSE \E outcome \in RetrievalOutcomes :
                      LET ans == QueryAnswer(query, outcome)
                      IN  /\ queried' = Append(queried, query)
                          /\ aQueue' = Append(aQueue, ans)
                          /\ answered' = Append(answered,
                                [ev |-> ev, outcome |-> outcome, ans |-> ans])
    /\ UNCHANGED << num_questions, completion, status, error, events_buffer,
                    sQueue, result, llm_calls, sub_questions, sent, delivered,
                    arrivals, stops, stopsAt >>
    /\ UNCHANGED exceptRag

\* -------------------------------------------------------- combine_answers
\* ctx.collect_events(ev, [SubAnswerEvent] * n): the buffer with ev appended;
\* when it holds n events they are taken out, oldest first, and returned
CollectBuffer(buffer, ev) == Append(buffer, ev)

CollectReady(buffer, ev, n) == Len(CollectBuffer(buffer, ev)) >= n

\* variant: the collected events come back newest first
CollectResult_Reversed(buffer, ev, n) ==
    [i \in 1..n |-> CollectBuffer(buffer, ev)[n + 1 - i]]

CollectResult(buffer, ev, n) == SubSeq(CollectBuffer(buffer, ev), 1, n)

CollectRest(buffer, ev, n) ==
    SubSeq(CollectBuffer(buffer, ev), n + 1, Len(CollectBuffer(buffer, ev)))

combine_answers ==
    /\ status = "running"
    /\ aQueue # << >>
    /\ LET ev == Head(aQueue)
       IN  /\ aQueue' = Tail(aQueue)
           /\ arrivals' = Append(arrivals, ev)
           /\ IF CollectReady(events_buffer, ev, num_questions)
              THEN LET combined_answer ==
                           CombinedAnswer(CollectResult(events_buffer, ev, num_questions))
                   IN  /\ events_buffer' = CollectRest(events_buffer, ev, num_questions)
                       /\ sQueue' = Append(sQueue, combined_answer)
                       /\ stops' = Append(stops, combined_answer)
                       /\ stopsAt' = Append(stopsAt, Len(arrivals) + 1)
              ELSE /\ events_buffer' = CollectBuffer(events_buffer, ev)
                   /\ UNCHANGED << sQueue, stops, stopsAt >>
    /\ UNCHANGED << num_questions, completion, status, error, qQueue, workers,
                    result, llm_calls, sub_questions, sent, delivered, handled,
                    queried, answered >>
    /\ UNCHANGED exceptRag

\* ------------------------------------------------- end of the run (engine)
\* the engine's final step takes a StopEvent: workflow.run returns its result
workflow_done ==
    /\ status = "running"
    /\ sQueue # << >>
    /\ result' = Head(sQueue)
    /\ sQueue' = Tail(sQueue)
    /\ status' = "complete"
    /\ UNCHANGED << num_questions, completion, error, qQueue, workers, aQueue,
                    events_buffer, history >>
    /\ UNCHANGED exceptRag

Next ==
    \/ generate_sub_questions
    \/ \E w \in 1..NumWorkers : query_llama_cloud(w)
    \/ combine_answers
    \/ workflow_done

allVars == << vars, exceptRag >>

Spec == Init /\ [][Next]_allVars

\* every task of the event loop that can run is eventually run
FairSpec == Spec /\ WF_allVars(Next)

\* ========================================================== process_query
\* `not api_key` is false
KeySet_NotNone(key) == key # NoKey

KeySet(key) == key # NoKey /\ key # EmptyStr

\* EnvironmentError("LLAMAINDEX_API_KEY environment variable is not set.")
MissingKeyError == [exc |-> "EnvironmentError", var |-> "LLAMAINDEX_API_KEY"]

\* an exception raised by the completion request, with str(e) = text
CompletionError(text) == [exc |-> "Exception", text |-> text]

Digit(d) ==
    CASE d = 0 -> "0" [] d = 1 -> "1" [] d = 2 -> "2" [] d = 3 -> "3" [] d = 4 -> "4"
      [] d = 5 -> "5" [] d = 6 -> "6" [] d = 7 -> "7" [] d = 8 -> "8" [] d = 9 -> "9"

\* str(n) of an int n >= 0, as in an f-string
RECURSIVE IntToStr(_)
IntToStr(n) == IF n < 10 THEN << Digit(n) >> ELSE IntToStr(n \div 10) \o << Digit(n % 10) >>

\* str(e) of the exception that failed the run
ErrorText(e) ==
    IF e.exc = "ValueError"
    THEN <<"E","x","p","e","c","t","e","d"," ">> \o IntToStr(e.expected)
           \o <<" ","s","u","b","-","q","u","e","s","t","i","o","n","s",",",
                " ","b","u","t"," ","g","o","t"," ">> \o IntToStr(e.got)
    ELSE e.text

ProcessingErrorPrefix ==
    <<"A","n"," ","e","r","r","o","r"," ","o","c","c","u","r","r","e","d"," ",
      "d","u","r","i","n","g"," ","p","r","o","c","e","s","s","i","n","g",":"," ">>

\* variant: no try/except around asyncio.run, the failure of the run is raised
ProcessQueryOutcome_Reraises(st, res, err) ==
    IF st = "complete"
    THEN [pq |-> "returned", value |-> res]
    ELSE [pq |-> "raised", value |-> err]

\* try: return asyncio.run(...)  except Exception as e: return f"An error ...: {str(e)}"
ProcessQueryOutcome(st, res, err) ==
    IF st = "complete"
    THEN [pq |-> "returned", value |-> res]
    ELSE [pq |-> "returned", value |-> ProcessingErrorPrefix \o ErrorText(err)]

\* process_query up to workflow.run: the key check, the clients, the workflow
process_query_begin ==
    /\ pq = "called"
    /\ IF ~KeySet(env_key)
       THEN /\ pq' = "raised"
            /\ pq_value' = MissingKeyError
            /\ UNCHANGED << clients, status >>
       ELSE /\ clients' = << "LlamaCloudIndex", "OpenAI" >>
            /\ pq' = "running"
            /\ status' = "start"
            /\ UNCHANGED pq_value
    /\ UNCHANGED << num_questions, completion, error, qQueue, workers, aQueue,
                    events_buffer, sQueue, result, history, env_key >>
    /\ UNCHANGED outsideRag

\* the completion request of generate_sub_questions raises: the run fails
completion_raises ==
    /\ status = "start"
    /\ \E text \in ExceptionTexts :
          /\ status' = "failed"
          /\ error' = CompletionError(text)
    /\ llm_calls' = llm_calls + 1
    /\ UNCHANGED << num_questions, completion, qQueue, workers, aQueue,
                    events_buffer, sQueue, result, sub_questions, sent,
                    delivered, handled, queried, answered, arrivals, stops,
                    stopsAt >>
    /\ UNCHANGED exceptRag

\* asyncio.run(run_workflow(user_query)) is over: process_query returns
process_query_end ==
    /\ pq = "running"
    /\ status \in {"complete", "failed"}
    /\ pq' = ProcessQueryOutcome(status, result, error).pq
    /\ pq_value' = ProcessQueryOutcome(status, result, error).value
    /\ UNCHANGED << vars, env_key, clients >>
    /\ UNCHANGED outsideRag

\* process_query is called with any value of the key, any N >= 1 and any
\* answer of the completion service
PQInit ==
    /\ IdleOutsideRag
    /\ env_key \in { NoKey, EmptyStr, <<"k">> }
    /\ pq = "called"
    /\ pq_value = NoResult
    /\ clients = << >>
    /\ num_questions \in 1..MaxNumQuestions
    /\ completion \in SeqsUpTo(QuestionTexts, MaxNumQuestions + 1)
    /\ status = "idle"
    /\ error = NoError
    /\ qQueue = << >>
    /\ workers = [w \in 1..NumWorkers |-> Idle]
    /\ aQueue = << >>
    /\ events_buffer = << >>
    /\ sQueue = << >>
    /\ result = NoResult
    /\ llm_calls = 0
    /\ sub_questions = << >>
    /\ sent = 0
    /\ delivered = 0
    /\ handled = << >>
    /\ queried = << >>
    /\ answered = << >>
    /\ arrivals = << >>
    /\ stops = << >>
    /\ stopsAt = << >>

PQNext ==
    \/ process_query_begin
    \/ completion_raises
    \/ generate_sub_questions
    \/ \E w \in 1..NumWorkers : query_llama_cloud(w)
    \/ combine_answers
    \/ workflow_done
    \/ process_query_end

PQSpec == PQInit /\ [][PQNext]_allVars

\* ===================================================== generate_luma_video
\* no workflow run and no process_query call exists
RagIdle ==
    /\ num_questions = 1
    /\ completion = << >>
    /\ status = "idle"
    /\ error = NoError
    /\ qQueue = << >>
    /\ workers = [w \in 1..NumWorkers |-> Idle]
    /\ aQueue = << >>
    /\ events_buffer = << >>
    /\ sQueue = << >>
    /\ result = NoResult
    /\ llm_calls = 0
    /\ sub_questions = << >>
    /\ sent = 0
    /\ delivered = 0
    /\ handled = << >>
    /\ queried = << >>
    /\ answered = << >>
    /\ arrivals = << >>
    /\ stops = << >>
    /\ stopsAt = << >>

PqIdle ==
    /\ env_key = <<"k">>
    /\ pq = "idle"
    /\ pq_value = NoResult
    /\ clients = << >>

\* the states a generation can report
GenerationStates == { "queued", "dreaming", "completed", "failed" }

\* status.failure_reason of a failed generation
FailureReasons == { <<"r">> }

\* what client.generations.get can return
StatusResponses ==
    [state : GenerationStates \ {"failed"}, failure_reason : {EmptyStr}]
        \cup [state : {"failed"}, failure_reason : FailureReasons]

\* final_status.assets.video of job j
Asset(j) == [video_of_job |-> j]

\* Exception("Max attempts reached")
MaxAttemptsError == [exc |-> "Exception", msg |-> "Max attempts reached", arg |-> << >>]

\* Exception(f"Generation failed: {status.failure_reason}")
GenerationFailedError(reason) ==
    [exc |-> "Exception", msg |-> "Generation failed: ", arg |-> reason]

\* Exception(f"Generation failed with state: {final_status.state}")
FinalStateError(state) ==
    [exc |-> "Exception", msg |-> "Generation failed with state: ", arg |-> state]

\* Exception(f"Video extension failed with state: {final_status.state}")
ExtensionStateError(state) ==
    [exc |-> "Exception", msg |-> "Video extension failed with state: ", arg |-> state]

\* the exception of the else branch after the final status query
NotCompletedError(fn, state) ==
    IF fn = "extend_video" THEN ExtensionStateError(state)
    ELSE FinalStateError(state)

\* the two functions that create a generation and wait for it
LumaFunctions == { "generate_luma_video", "extend_video" }

\* stop=stop_after_attempt(...) of the retry decorator of fn
StopAfterAttempt(fn) ==
    IF fn = "extend_video" THEN ExtendStopAfterAttempt
    ELSE LumaStopAfterAttempt

FinalCompleted_NotFailed(state) == state # "failed"

\* final_status.state == "completed"
FinalCompleted(state) == state = "completed"

\* an exception raised by the client itself
ClientError == [exc |-> "Exception", msg |-> "client", arg |-> << >>]

\* tenacity.RetryError(last_attempt), raised when the attempts are used up
RetryError(last) == [exc |-> "RetryError", last_attempt |-> last]

\* variant: a completed job is polled on like a running one
PollVerdict_IgnoresCompleted(state) ==
    IF state = "failed" THEN "raise" ELSE "wait"

\* variant: a failed job is polled on like a running one
PollVerdict_IgnoresFailed(state) ==
    IF state = "completed" THEN "return" ELSE "wait"

\* what poll_generation does with a status it read (lines 106-114)
PollVerdict(state) ==
    IF state = "completed" THEN "return"
    ELSE IF state = "failed" THEN "raise"
    ELSE "wait"

\* variant: the loop runs once more than max_attempts
PollBudgetLeft_OneMore(attempt, max_attempts) == attempt <= max_attempts

\* `for attempt in range(max_attempts)` has another round
PollBudgetLeft(attempt, max_attempts) == attempt < max_attempts

\* the attempt of generate_luma_video raised exc: tenacity runs the function
\* again, or raises RetryError after the last attempt
AttemptRaised(exc) ==
    /\ lm_exc' = exc
    /\ IF lm_try < StopAfterAttempt(lm_fn)
       THEN /\ lm_try' = lm_try + 1
            /\ lm_pc' = "call"
            /\ UNCHANGED lm_value
       ELSE /\ lm_pc' = "raised"
            /\ lm_value' = RetryError(exc)
            /\ UNCHANGED lm_try

\* client.generations.create(...), lines 27-33
luma_create ==
    /\ lm_pc = "call"
    /\ lm_jobs' = lm_jobs + 1
    /\ lm_prev_exit' = lm_exit
    /\ lm_attempt' = 0
    /\ lm_polls' = 0
    /\ lm_proc' = 0
    /\ lm_errs' = 0
    /\ lm_lastPoll' = NoStatus
    /\ lm_final' = "none"
    /\ \E raises \in BOOLEAN :
          IF raises
          THEN /\ AttemptRaised(ClientError)
               /\ lm_exit' = "create"
          ELSE /\ lm_pc' = "poll"
               /\ lm_exit' = "none"
               /\ lm_exc' = NoException
               /\ UNCHANGED << lm_try, lm_value >>
    /\ UNCHANGED lm_fn
    /\ UNCHANGED exceptLuma

\* variant: no try/except around the status query, its exception leaves
\* poll_generation
poll_generation_round_Propagates ==
    /\ lm_pc = "poll"
    /\ PollBudgetLeft(lm_attempt, MAX_ATTEMPTS)
    /\ lm_polls' = lm_polls + 1
    /\ \/ \* the status query raises
          /\ lm_errs' = lm_errs + 1
          /\ AttemptRaised(ClientError)
          /\ UNCHANGED << lm_attempt, lm_proc, lm_lastPoll, lm_exit >>
       \/ \E st \in StatusResponses :
            /\ lm_lastPoll' = st
            /\ CASE PollVerdict(st.state) = "return" ->
                       /\ lm_pc' = "final"
                       /\ lm_exit' = "completed"
                       /\ UNCHANGED << lm_try, lm_attempt, lm_proc, lm_errs, lm_exc, lm_value >>
                 [] PollVerdict(st.state) = "raise" ->
                       /\ AttemptRaised(GenerationFailedError(st.failure_reason))
                       /\ lm_exit' = "failed"
                       /\ UNCHANGED << lm_attempt, lm_proc, lm_errs >>
                 [] OTHER ->
                       /\ lm_proc' = lm_proc + 1
                       /\ lm_pc' = "sleep"
                       /\ UNCHANGED << lm_try, lm_attempt, lm_errs, lm_exit, lm_exc, lm_value >>
    /\ UNCHANGED << lm_jobs, lm_final, lm_prev_exit >>
    /\ UNCHANGED lm_fn
    /\ UNCHANGED exceptLuma

\* one round of the loop of poll_generation up to its sleep: the status
\* query and what is done with its answer, lines 91-113
poll_generation_round ==
    /\ lm_pc = "poll"
    /\ PollBudgetLeft(lm_attempt, MAX_ATTEMPTS)
    /\ lm_polls' = lm_polls + 1
    /\ \/ \* the status query raises: wait and go on
          /\ lm_errs' = lm_errs + 1
          /\ lm_pc' = "sleep"
          /\ UNCHANGED << lm_try, lm_attempt, lm_proc, lm_lastPoll, lm_exit, lm_exc, lm_value >>
       \/ \E st \in StatusResponses :
            /\ lm_lastPoll' = st
            /\ CASE PollVerdict(st.state) = "return" ->
                       /\ lm_pc' = "final"
                       /\ lm_exit' = "completed"
                       /\ UNCHANGED << lm_try, lm_attempt, lm_proc, lm_errs, lm_exc, lm_value >>
                 [] PollVerdict(st.state) = "raise" ->
                       /\ AttemptRaised(GenerationFailedError(st.failure_reason))
                       /\ lm_exit' = "failed"
                       /\ UNCHANGED << lm_attempt, lm_proc, lm_errs >>
                 [] OTHER ->
                       /\ lm_proc' = lm_proc + 1
                       /\ lm_pc' = "sleep"
                       /\ UNCHANGED << lm_try, lm_attempt, lm_errs, lm_exit, lm_exc, lm_value >>
    /\ UNCHANGED << lm_jobs, lm_final, lm_prev_exit >>
    /\ UNCHANGED lm_fn
    /\ UNCHANGED exceptLuma

\* asyncio.sleep(delay) is over (line 100 or 114) and the loop goes to its
\* next attempt (line 91)
poll_generation_sleep ==
    /\ lm_pc = "sleep"
    /\ lm_pc' = "poll"
    /\ lm_attempt' = lm_attempt + 1
    /\ UNCHANGED << lm_try, lm_jobs, lm_polls, lm_proc, lm_errs, lm_lastPoll,
                    lm_exit, lm_final, lm_exc, lm_prev_exit, lm_value >>
    /\ UNCHANGED lm_fn
    /\ UNCHANGED exceptLuma

\* the loop of poll_generation is over: lines 116-117
poll_generation_exhausted ==
    /\ lm_pc = "poll"
    /\ ~PollBudgetLeft(lm_attempt, MAX_ATTEMPTS)
    /\ AttemptRaised(MaxAttemptsError)
    /\ lm_exit' = "max"
    /\ UNCHANGED << lm_jobs, lm_attempt, lm_polls, lm_proc, lm_errs, lm_lastPoll,
                    lm_final, lm_prev_exit >>
    /\ UNCHANGED lm_fn
    /\ UNCHANGED exceptLuma

\* the status query after poll_generation, lines 39-45
luma_final_status ==
    /\ lm_pc = "final"
    /\ \/ \* the status query raises
          /\ AttemptRaised(ClientError)
          /\ lm_final' = "raised"
       \/ \E st \in StatusResponses :
            /\ lm_final' = st.state
            /\ IF FinalCompleted(st.state)
               THEN /\ lm_pc' = "returned"
                    /\ lm_value' = Asset(lm_jobs)
                    /\ UNCHANGED << lm_try, lm_exc >>
               ELSE AttemptRaised(NotCompletedError(lm_fn, st.state))
    /\ UNCHANGED << lm_jobs, lm_attempt, lm_polls, lm_proc, lm_errs, lm_lastPoll,
                    lm_exit, lm_prev_exit >>
    /\ UNCHANGED lm_fn
    /\ UNCHANGED exceptLuma

\* generate_luma_video has just been called
LumaInit ==
    /\ RagIdle
    /\ PqIdle
    /\ RetryIdle /\ TextIdle /\ TwoIdle /\ VideoIdle
    /\ lm_fn = "generate_luma_video"
    /\ lm_pc = "call"
    /\ lm_try = 1
    /\ lm_jobs = 0
    /\ lm_attempt = 0
    /\ lm_polls = 0
    /\ lm_proc = 0
    /\ lm_errs = 0
    /\ lm_lastPoll = NoStatus
    /\ lm_exit = "none"
    /\ lm_final = "none"
    /\ lm_exc = NoException
    /\ lm_prev_exit = "none"
    /\ lm_value = NoResult

LumaNext ==
    \/ luma_create
    \/ poll_generation_round
    \/ poll_generation_sleep
    \/ poll_generation_exhausted
    \/ luma_final_status

LumaSpec == LumaInit /\ [][LumaNext]_allVars

\* ================================================================= claims
\* the run went past count validation
Validated == status \in {"running", "complete"}

\* the answers query_llama_cloud can give to the sub-question q
AnswersFor(q) ==
    IF q = EmptyStr THEN { EmptyQueryAnswer }
    ELSE { QueryAnswer(q, o) : o \in RetrievalOutcomes }

\* C1 (as claimed): in a run configured with N whose completion holds N
\* questions, exactly N SubQuestionsEvents reach query_llama_cloud, the sent
\* ones and the returned one counted together.
C1_ExactlyNDelivered ==
    Validated => delivered = num_questions

\* C2: whichever task of the retrieval step handles which event and whichever
\* retrieval calls raise, the final combined result holds an entry for every
\* generated sub-question.
C2_EveryQuestionInResult ==
    status = "complete" =>
        \A i \in 1..Len(sub_questions) :
            \E ans \in AnswersFor(sub_questions[i]) :
                Contains(result, FormatEntry(ans))

\* N = 2, the retrieval returned "x" for "a" and raised "e" for "b": the
\* result holds "Q: a\nA: x" and "Q: b\nA: Error querying LlamaCloud: e"
C2_Witness ==
    /\ status = "complete"
    /\ num_questions = 2
    /\ sub_questions = << <<"a">>, <<"b">> >>
    /\ Contains(result, FormatEntry(SubAnswerEvent(<<"a">>, <<"x">>)))
    /\ Contains(result, FormatEntry(SubAnswerEvent(<<"b">>, QueryErrorText(<<"e">>))))

\* C3 (as claimed): every StopEvent of combine_answers is emitted on the call
\* that receives the N-th SubAnswerEvent of the run, and before that call
\* nothing is emitted and the run keeps waiting.
C3_StopOnlyAtExactlyN ==
    /\ \A k \in 1..Len(stopsAt) : stopsAt[k] = num_questions
    /\ (Validated /\ Len(arrivals) < num_questions) =>
            (stops = << >> /\ status = "running")

C5_RaiseBecomesAnswer ==
    /\ \A k \in 1..Len(answered) :
          answered[k].outcome.raised =>
              /\ QueryOf(answered[k].ev) # EmptyStr
              /\ answered[k].ans.question = QueryOf(answered[k].ev)
              /\ answered[k].ans.sub_answer = QueryErrorPrefix \o answered[k].outcome.text
    /\ Len(answered) = Len(handled)
    /\ handled # << >> => status # "failed"

C5_Witness ==
    \E k \in 1..Len(answered) :
        answered[k].outcome.raised /\ answered[k].ans \in { arrivals[j] : j \in 1..Len(arrivals) }

\* C6: an event whose question text is empty is answered "Error: Empty query"
\* and the retrieval service is queried only for the events with a non-empty
\* question.
C6_EmptyQueryShortCircuit ==
    /\ \A k \in 1..Len(answered) :
          QueryOf(answered[k].ev) = EmptyStr =>
              /\ answered[k].ans.sub_answer = EmptyQueryError
              /\ answered[k].outcome.skipped
    /\ \A k \in 1..Len(queried) : queried[k] # EmptyStr
    /\ Len(queried) =
          Cardinality({ k \in 1..Len(handled) : QueryOf(handled[k]) # EmptyStr })

C6_Witness ==
    \E k \in 1..Len(answered) :
        QueryOf(answered[k].ev) = EmptyStr /\ queried # << >>

\* C7: a completion with M # N questions fails the run with the count-mismatch
\* error after a single completion request, with no event sent, no retrieval
\* and no result.
C7_CountMismatchFails ==
    (status # "start" /\ Len(completion) # num_questions) =>
        /\ status = "failed"
        /\ error = CountMismatch(num_questions, Len(completion))
        /\ llm_calls = 1
        /\ sent = 0 /\ delivered = 0 /\ qQueue = << >>
        /\ handled = << >> /\ queried = << >> /\ answered = << >>
        /\ arrivals = << >> /\ stops = << >>
        /\ result = NoResult

C7_Witness ==
    /\ status = "failed"
    /\ Len(completion) > num_questions
    /\ error = CountMismatch(num_questions, num_questions + 1)

\* C8: under fair scheduling every run that passed count validation reaches
\* the complete state with a result, whichever retrieval calls raise.
C8_ValidatedRunCompletes ==
    (status = "running") ~> (status = "complete" /\ result # NoResult)

\* a run completed although every retrieval call it made raised
C8_Witness ==
    /\ status = "complete"
    /\ Len(answered) >= num_questions
    /\ \A k \in 1..Len(answered) : answered[k].outcome.raised

\* C9 (as claimed): combine_answers emits at most one StopEvent per run, and
\* once it has, no further SubAnswerEvent is taken in or buffered.
C9_AtMostOneResult ==
    stops # << >> =>
        /\ Len(stops) = 1
        /\ Len(arrivals) = stopsAt[1]
        /\ events_buffer = << >>

\* C10 (as claimed): the retrieval service is never queried more often for a
\* text than the text occurs among the generated sub-questions, and at the end
\* of the run it has been queried once per generated sub-question.
C10_QueriedOncePerQuestion ==
    /\ \A q \in QuestionTexts \ {EmptyStr} :
          Count(queried, q) <= Count(sub_questions, q)
    /\ status = "complete" =>
          \A q \in QuestionTexts \ {EmptyStr} :
              Count(queried, q) = Count(sub_questions, q)

\* C12 (as claimed): on success, on retrieval failure and on empty query alike
\* the question of the returned answer is the question text of the event.
C12_QuestionPreserved ==
    \A k \in 1..Len(answered) :
        answered[k].ans.question = QueryOf(answered[k].ev)

\* C12 (amended): on success and on retrieval failure the question of the
\* answer is the question text of the event; for an empty question text it is
\* "Unknown Question".
C12_QuestionPreservedUnlessEmpty ==
    \A k \in 1..Len(answered) :
        answered[k].ans.question =
            IF QueryOf(answered[k].ev) = EmptyStr THEN UnknownQuestion
            ELSE QueryOf(answered[k].ev)

\* answers of all three kinds have been returned
C12_Witness ==
    /\ \E k \in 1..Len(answered) : answered[k].outcome.skipped
    /\ \E k \in 1..Len(answered) : answered[k].outcome.raised
    /\ \E k \in 1..Len(answered) :
          ~answered[k].outcome.skipped /\ ~answered[k].outcome.raised

\* C17: when the workflow run has failed, process_query does not raise: it
\* returns "An error occurred during processing: " followed by the message of
\* the failure, and no combined result was produced.
C17_FailureBecomesString ==
    (status = "failed" /\ pq # "running") =>
        /\ pq = "returned"
        /\ pq_value = ProcessingErrorPrefix \o ErrorText(error)
        /\ result = NoResult /\ stops = << >>

\* both kinds of failure have been returned as a string
C17_Witness ==
    /\ pq = "returned"
    /\ status = "failed"
    /\ error = CountMismatch(2, 3)
    /\ pq_value = ProcessingErrorPrefix \o
          <<"E","x","p","e","c","t","e","d"," ","2"," ","s","u","b","-",
            "q","u","e","s","t","i","o","n","s",","," ","b","u","t"," ",
            "g","o","t"," ","3">>

\* C18: with LLAMAINDEX_API_KEY missing (unset or empty) process_query raises
\* the configuration error with no client constructed, no run started and no
\* service called.
C18_MissingKeyAborts ==
    ((env_key = NoKey \/ env_key = EmptyStr) /\ pq # "called") =>
        /\ pq = "raised"
        /\ pq_value = MissingKeyError
        /\ clients = << >>
        /\ status = "idle"
        /\ llm_calls = 0 /\ queried = << >>

C18_Witness ==
    /\ env_key = EmptyStr
    /\ pq = "raised"

\* C13: poll_generation returns on the first poll that reports "completed",
\* having made one status query per earlier round and none after it, within
\* max_attempts; when the status read after polling is "completed" too,
\* generate_luma_video returns the video asset of that job and no other job
\* is created in that attempt.
C13_ReturnsAtFirstCompleted ==
    /\ lm_lastPoll.state = "completed" =>
          /\ lm_exit = "completed"
          /\ lm_pc # "poll"
          /\ lm_polls = lm_proc + lm_errs + 1
          /\ lm_polls <= MAX_ATTEMPTS
    /\ lm_final = "completed" =>
          /\ lm_pc = "returned"
          /\ lm_exit = "completed"
          /\ lm_value = Asset(lm_jobs)
          /\ lm_jobs = lm_try

\* "processing" for 3 polls, then "completed": the first job's asset is returned
C13_Witness ==
    /\ lm_pc = "returned"
    /\ lm_proc = 3 /\ lm_errs = 0 /\ lm_polls = 4
    /\ lm_jobs = 1
    /\ lm_value = Asset(1)

\* C14 (as claimed): poll_generation raises the max-attempts error after
\* exactly max_attempts status queries, and no further job is started for the
\* call after that.
C14_MaxAttemptsFailsCall ==
    /\ lm_exit = "max" => lm_polls = MAX_ATTEMPTS
    /\ lm_prev_exit # "max"

\* C14 (amended): poll_generation raises the max-attempts error after exactly
\* max_attempts status queries; this fails the current attempt only: the retry
\* decorator starts a new job, and when the fifth attempt has failed the call
\* raises RetryError.
C14_MaxAttemptsThenRetry ==
    lm_exit = "max" =>
        /\ lm_polls = MAX_ATTEMPTS
        /\ lm_proc + lm_errs = MAX_ATTEMPTS
        /\ lm_final = "none"
        /\ lm_exc = MaxAttemptsError
        /\ lm_pc \in {"call", "raised"}
        /\ lm_pc = "call" => (lm_jobs < LumaStopAfterAttempt /\ lm_try = lm_jobs + 1)
        /\ lm_pc = "raised" =>
              (lm_jobs = LumaStopAfterAttempt /\ lm_value = RetryError(MaxAttemptsError))

\* the first job never left "processing": a second attempt is pending
C14_Witness ==
    /\ lm_exit = "max"
    /\ lm_proc = MAX_ATTEMPTS /\ lm_errs = 0
    /\ lm_pc = "call" /\ lm_try = 2

\* C15 (as claimed): on a poll that reports "failed" the call raises at once
\* with the failure reason, with no further status query and no new job.
C15_FailedFailsCall ==
    /\ lm_lastPoll.state = "failed" =>
          /\ lm_exit = "failed"
          /\ lm_final = "none"
          /\ lm_exc = GenerationFailedError(lm_lastPoll.failure_reason)
    /\ lm_prev_exit # "failed"
    /\ (lm_pc = "raised" /\ lm_exit = "failed") =>
          lm_value = GenerationFailedError(lm_lastPoll.failure_reason)

\* C15 (amended): on a poll that reports "failed" poll_generation raises at
\* once with the failure reason and the job is not queried again; this fails
\* the current attempt only: the retry decorator starts a new job, and when the
\* fifth attempt has failed the call raises RetryError wrapping that exception.
C15_FailedThenRetry ==
    lm_lastPoll.state = "failed" =>
        /\ lm_exit = "failed"
        /\ lm_final = "none"
        /\ lm_polls = lm_proc + lm_errs + 1
        /\ lm_exc = GenerationFailedError(lm_lastPoll.failure_reason)
        /\ lm_pc \in {"call", "raised"}
        /\ lm_pc = "call" => (lm_jobs < LumaStopAfterAttempt /\ lm_try = lm_jobs + 1)
        /\ lm_pc = "raised" =>
              /\ lm_jobs = LumaStopAfterAttempt
              /\ lm_value = RetryError(GenerationFailedError(lm_lastPoll.failure_reason))

\* the fifth job failed too: the call has raised
C15_Witness ==
    /\ lm_pc = "raised"
    /\ lm_exit = "failed"
    /\ lm_prev_exit = "failed"
    /\ lm_jobs = LumaStopAfterAttempt

(***************************************************************************)
(* Part 4: generate_image and talking_head.                                *)
(*                                                                         *)
(* Both are wrapped in retry(stop_after_attempt(3), wait_fixed(1),         *)
(* retry_if_exception_type(Exception), reraise=True).  An attempt is one   *)
(* execution of the function body, which calls replicate.run once.         *)
(***************************************************************************)

\* stop=stop_after_attempt(3)
ReplicateStopAfterAttempt == 3

RetryFunctions == { "generate_image", "talking_head" }

\* replicate.run returned None
NoOutput == << "None" >>

\* what replicate.run can return: None, an empty output, or an output of one
\* or two items
ReplicateOutputs == { NoOutput, << >>, << "u" >>, << "v" >>, << "u", "v" >> }

\* what one replicate.run call can do
ReplicateOutcomes ==
    { [raised |-> TRUE, output |-> NoOutput] }
        \cup { [raised |-> FALSE, output |-> o] : o \in ReplicateOutputs }

\* "if not output"
NotOutput(output) == output = NoOutput \/ output = << >>

\* the exception each function raises from its except clause
ReplicateError(fn) ==
    IF fn = "generate_image"
    THEN [exception |-> "Failed to generate image using Replicate."]
    ELSE [exception |-> "Failed to generate video using Replicate."]

\* the value each function returns for a usable output: generate_image
\* returns output[0], talking_head returns output
ReplicateValue(fn, output) ==
    IF fn = "generate_image" THEN [value |-> << output[1] >>]
    ELSE [value |-> output]

\* the body of an attempt fails: replicate.run raised or "not output"
AttemptFails(outcome) == outcome.raised \/ NotOutput(outcome.output)

RetryBudgetLeft_OneMore(attempt) == attempt <= ReplicateStopAfterAttempt

\* stop_after_attempt(3): another attempt follows a failed one while fewer
\* than 3 attempts have been made
RetryBudgetLeft(attempt) == attempt < ReplicateStopAfterAttempt

\* the caller calls generate_image or talking_head
replicate_call ==
    /\ rt_pc = "idle"
    /\ \E fn \in RetryFunctions : rt_fn' = fn
    /\ rt_pc' = "call"
    /\ rt_try' = 1
    /\ UNCHANGED << rt_calls, rt_outcomes, rt_value >>
    /\ UNCHANGED exceptRetry

\* one attempt: the function body runs once
replicate_attempt ==
    /\ rt_pc = "call"
    /\ \E outcome \in ReplicateOutcomes :
        /\ rt_calls' = rt_calls + 1
        /\ rt_outcomes' = Append(rt_outcomes, outcome)
        /\ IF AttemptFails(outcome)
           THEN IF RetryBudgetLeft(rt_try)
                THEN /\ rt_try' = rt_try + 1
                     /\ UNCHANGED << rt_pc, rt_value >>
                ELSE /\ rt_pc' = "raised"
                     /\ rt_value' = ReplicateError(rt_fn)
                     /\ UNCHANGED rt_try
           ELSE /\ rt_pc' = "returned"
                /\ rt_value' = ReplicateValue(rt_fn, outcome.output)
                /\ UNCHANGED rt_try
    /\ UNCHANGED rt_fn
    /\ UNCHANGED exceptRetry

\* no call of generate_image or talking_head has been made yet
RetryInit ==
    /\ RagIdle
    /\ PqIdle
    /\ LumaIdle /\ TextIdle /\ TwoIdle /\ VideoIdle
    /\ RetryIdle

RetryNext ==
    \/ replicate_call
    \/ replicate_attempt

RetrySpec == RetryInit /\ [][RetryNext]_allVars

\* C16: generate_image and talking_head call replicate.run at most 3 times
\* per call; every attempt before the last one made has raised or given an
\* empty output; a call returns only on an attempt with a non-empty output,
\* and returns that output (generate_image its first item); a call raises
\* only after three failed attempts, and then returns no value.
C16_AtMostThreeAttempts ==
    LET failed(o) == o.raised \/ o.output \in { NoOutput, << >> }
        n == Len(rt_outcomes)
    IN  /\ rt_calls = n
        /\ n <= 3
        /\ \A i \in 1..(n - 1) : failed(rt_outcomes[i])
        /\ rt_pc = "call" => n < 3 /\ \A i \in 1..n : failed(rt_outcomes[i])
        /\ rt_pc = "returned" =>
              /\ n >= 1
              /\ ~failed(rt_outcomes[n])
              /\ rt_fn = "talking_head" =>
                    rt_value = [value |-> rt_outcomes[n].output]
              /\ rt_fn = "generate_image" =>
                    rt_value = [value |-> << rt_outcomes[n].output[1] >>]
        /\ rt_pc = "raised" =>
              /\ n = 3
              /\ failed(rt_outcomes[n])
              /\ "exception" \in DOMAIN rt_value
              /\ "value" \notin DOMAIN rt_value

\* generate_image raises after an exception, an empty output and a None
C16_Witness ==
    /\ rt_pc = "raised"
    /\ rt_fn = "generate_image"
    /\ rt_calls = 3
    /\ rt_outcomes[1].raised
    /\ rt_outcomes[2] = [raised |-> FALSE, output |-> << >>]
    /\ rt_outcomes[3] = [raised |-> FALSE, output |-> NoOutput]

(***************************************************************************)
(* Part 5: the combined text of combine_answers, read back.                *)
(*                                                                         *)
(* combine_answers is the code of lines 107-112.  The repository has no    *)
(* parser of the combined text; ParseCombined follows the specification's  *)
(* description of one: it splits the text on the "Q: " / "A: " markers     *)
(* that combine_answers writes.                                            *)
(***************************************************************************)

\* longest list of SubAnswerEvents combined
MaxPairs == 2

\* question and answer texts, with and without the markers of the format
MarkerQ == << "\n", "\n", "Q", ":", " " >>
MarkerA == << "\n", "A", ":", " " >>

PairQuestionTexts ==
    { EmptyStr, <<"a">>, <<"a">> \o MarkerA \o <<"b">>,
      <<"a">> \o MarkerQ \o <<"b">> }

PairAnswerTexts ==
    { EmptyStr, <<"x">>, <<"x">> \o MarkerA \o <<"y">>,
      <<"x">> \o MarkerQ \o <<"y">> }

PairEvents ==
    { SubAnswerEvent(q, a) : q \in PairQuestionTexts, a \in PairAnswerTexts }

\* s.find(sub): offset of the first occurrence of sub in s, -1 if none
Find(s, sub) ==
    LET hits == { i \in 0..(Len(s) - Len(sub)) :
                    \A j \in 1..Len(sub) : s[i + j] = sub[j] }
    IN  IF hits = {} THEN -1
        ELSE CHOOSE i \in hits : \A k \in hits : i <= k

\* s.split(sep)
RECURSIVE Split(_, _)
Split(s, sep) ==
    LET i == Find(s, sep)
    IN  IF i = -1 THEN << s >>
        ELSE << SubSeq(s, 1, i) >>
                \o Split(SubSeq(s, i + Len(sep) + 1, Len(s)), sep)

\* one "question\nA: answer" entry, split at its first "A: " marker
ParseEntry(entry) ==
    LET i == Find(entry, MarkerA)
    IN  IF i = -1 THEN SubAnswerEvent(entry, EmptyStr)
        ELSE SubAnswerEvent(SubSeq(entry, 1, i),
                            SubSeq(entry, i + Len(MarkerA) + 1, Len(entry)))

\* the parser: drop the leading "Q: ", split the entries at each blank line
\* followed by "Q: ", split each entry at its "A: " marker
ParseCombined(text) ==
    IF Len(text) < 3 \/ SubSeq(text, 1, 3) # <<"Q", ":", " ">> THEN << >>
    ELSE LET entries == Split(SubSeq(text, 4, Len(text)), MarkerQ)
         IN  [i \in 1..Len(entries) |-> ParseEntry(entries[i])]

\* combine_answers builds the text of the collected events
combine_text ==
    /\ ct_pc = "input"
    /\ ct_text' = CombinedAnswer(ct_events)
    /\ ct_pc' = "combined"
    /\ UNCHANGED << ct_events, ct_parsed >>
    /\ UNCHANGED exceptText

\* the parser reads the text back
parse_text ==
    /\ ct_pc = "combined"
    /\ ct_parsed' = ParseCombined(ct_text)
    /\ ct_pc' = "parsed"
    /\ UNCHANGED << ct_events, ct_text >>
    /\ UNCHANGED exceptText

\* collect_events has returned between 1 and MaxPairs SubAnswerEvents
TextInit ==
    /\ RagIdle
    /\ PqIdle
    /\ LumaIdle /\ RetryIdle /\ TwoIdle /\ VideoIdle
    /\ ct_pc = "input"
    /\ ct_events \in SeqsUpTo(PairEvents, MaxPairs) \ { << >> }
    /\ ct_text = << >>
    /\ ct_parsed = << >>

TextNext ==
    \/ combine_text
    \/ parse_text

TextSpec == TextInit /\ [][TextNext]_allVars

\* C20 (as claimed): for every sequence of (question, answer) pairs given to
\* the aggregator, parsing its combined text on the "Q:" / "A:" markers
\* gives back the same pairs in the same order.
C20_RoundTrip ==
    ct_pc = "parsed" => ct_parsed = ct_events

\* no question holds a marker of the format and no answer holds the entry
\* separator
MarkerFree(events) ==
    \A i \in 1..Len(events) :
        /\ ~Contains(events[i].question, MarkerA)
        /\ ~Contains(events[i].question, MarkerQ)
        /\ ~Contains(events[i].sub_answer, MarkerQ)

\* C20 (amended): for every sequence of (question, answer) pairs in which no
\* question contains "\nA: " or "\n\nQ: " and no answer contains "\n\nQ: ",
\* parsing the combined text on the markers gives back the same pairs in the
\* same order.
C20_RoundTripWithoutMarkers ==
    (ct_pc = "parsed" /\ MarkerFree(ct_events)) => ct_parsed = ct_events

\* two pairs, the first answer itself holding "\nA: ", read back unchanged
C20_Witness ==
    /\ ct_pc = "parsed"
    /\ Len(ct_events) = 2
    /\ MarkerFree(ct_events)
    /\ Contains(ct_events[1].sub_answer, MarkerA)
    /\ ct_events[2].question = EmptyStr
    /\ ct_text = CombinedAnswer(ct_events)
    /\ ct_parsed = ct_events

(***************************************************************************)
(* Part 6: two process_query calls in flight at once.                      *)
(*                                                                         *)
(* Each call builds its own RAGWorkflow (line 144) and calls workflow.run  *)
(* on it (lines 147-148); the engine makes one context per run call, and   *)
(* the queues of the steps and the buffer of collect_events live in that   *)
(* context.  The steps are the ones of Part 1, taken per context.          *)
(*                                                                         *)
(* process_query runs its workflow with asyncio.run (line 153), which      *)
(* makes an event loop on the calling thread: two calls in flight are on   *)
(* two threads.  query_engine.query (line 94) is a synchronous call: while *)
(* it waits for the retrieval service, the loop of its own thread runs no  *)
(* other step, and the thread of the other call goes on.  The retrieval    *)
(* step is therefore two actions here, the call and its return, and no     *)
(* step of a context is taken while a task of it stands in the call.  Both *)
(* completions hold the requested number of questions; the questions of    *)
(* run 1 read "a" and those of run 2 read "b", so that the run an event    *)
(* comes from can be read off the event.                                   *)
(***************************************************************************)

\* largest num_questions of the two workflows
MaxRunQuestions == 2

\* the question text of the sub-questions of run r
RunText(r) == IF r = 1 THEN <<"a">> ELSE <<"b">>

\* parsed_response.questions of the completion of run r
RunCompletion(r, n) == [i \in 1..n |-> RunText(r)]

ContextOf_Shared(r) == 1

\* the context the steps of run r work in: the one made by its own
\* workflow.run call
ContextOf(r) == r

\* the runs whose steps work in context c
RunsOf(c) == { r \in Runs : ContextOf(r) = c }

\* the steps of context c are scheduled while a run of it is in flight
InFlight(c) == \E r \in RunsOf(c) : tr_status[r] = "running"

\* the thread of context c is not held by a retrieval call
Unblocked(c) == tr_at[c] = 0

\* generate_sub_questions of run r
two_generate_sub_questions(r) ==
    /\ tr_status[r] = "start"
    /\ Unblocked(ContextOf(r))
    /\ CountMatches(RunCompletion(r, tr_n[r]), tr_n[r])
    /\ tr_status' = [tr_status EXCEPT ![r] = "running"]
    /\ tr_q' = [tr_q EXCEPT ![ContextOf(r)] = @ \o FanOut(RunCompletion(r, tr_n[r]))]
    /\ UNCHANGED << tr_n, tr_busy, tr_at, tr_aq, tr_buf, tr_stop, tr_result >>
    /\ UNCHANGED exceptTwo

\* lines 86-94: the task w of context c takes an event; an empty query is
\* answered at once (lines 89-90), any other is handed to query_engine.query
two_query_llama_cloud_call(c, w) ==
    /\ InFlight(c)
    /\ Unblocked(c)
    /\ tr_q[c] # << >>
    /\ FirstUse(tr_busy[c], w)
    /\ LET ev == Head(tr_q[c])
       IN  /\ tr_q' = [tr_q EXCEPT ![c] = Tail(@)]
           /\ tr_busy' = [tr_busy EXCEPT ![c][w] = ev]
           /\ IF IsEmptyQuery(QueryOf(ev))
              THEN /\ tr_aq' = [tr_aq EXCEPT ![c] = Append(@, EmptyQueryAnswer)]
                   /\ UNCHANGED tr_at
              ELSE /\ tr_at' = [tr_at EXCEPT ![c] = w]
                   /\ UNCHANGED tr_aq
    /\ UNCHANGED << tr_n, tr_status, tr_buf, tr_stop, tr_result >>
    /\ UNCHANGED exceptTwo

\* lines 94-97: query_engine.query returns or raises in context c, and the
\* task standing in it returns its SubAnswerEvent
two_query_llama_cloud_return(c) ==
    /\ tr_at[c] # 0
    /\ \E outcome \in RetrievalOutcomes :
          tr_aq' = [tr_aq EXCEPT
                      ![c] = Append(@, QueryAnswer(QueryOf(tr_busy[c][tr_at[c]]), outcome))]
    /\ tr_at' = [tr_at EXCEPT ![c] = 0]
    /\ UNCHANGED << tr_n, tr_status, tr_q, tr_busy, tr_buf, tr_stop, tr_result >>
    /\ UNCHANGED exceptTwo

\* combine_answers in context c, on the workflow object of a run of c
two_combine_answers(c) ==
    /\ InFlight(c)
    /\ Unblocked(c)
    /\ tr_aq[c] # << >>
    /\ \E r \in RunsOf(c) :
        LET ev == Head(tr_aq[c])
            n == tr_n[r]
        IN  /\ tr_status[r] = "running"
            /\ tr_aq' = [tr_aq EXCEPT ![c] = Tail(@)]
            /\ IF CollectReady(tr_buf[c], ev, n)
               THEN /\ tr_buf' = [tr_buf EXCEPT ![c] = CollectRest(tr_buf[c], ev, n)]
                    /\ tr_stop' = [tr_stop EXCEPT
                          ![c] = Append(@, CombinedAnswer(CollectResult(tr_buf[c], ev, n)))]
               ELSE /\ tr_buf' = [tr_buf EXCEPT ![c] = CollectBuffer(tr_buf[c], ev)]
                    /\ UNCHANGED tr_stop
    /\ UNCHANGED << tr_n, tr_status, tr_q, tr_busy, tr_at, tr_result >>
    /\ UNCHANGED exceptTwo

\* the final step of context c takes a StopEvent: workflow.run returns
two_workflow_done(c) ==
    /\ tr_stop[c] # << >>
    /\ Unblocked(c)
    /\ \E r \in RunsOf(c) :
        /\ tr_status[r] = "running"
        /\ tr_result' = [tr_result EXCEPT ![r] = Head(tr_stop[c])]
        /\ tr_status' = [tr_status EXCEPT ![r] = "complete"]
    /\ tr_stop' = [tr_stop EXCEPT ![c] = Tail(@)]
    /\ UNCHANGED << tr_n, tr_q, tr_busy, tr_at, tr_aq, tr_buf >>
    /\ UNCHANGED exceptTwo

\* both process_query calls have built their workflow and called workflow.run
TwoInit ==
    /\ RagIdle
    /\ PqIdle
    /\ LumaIdle /\ RetryIdle /\ TextIdle /\ VideoIdle
    /\ tr_n \in [Runs -> 1..MaxRunQuestions]
    /\ tr_status = [r \in Runs |-> "start"]
    /\ tr_q = [c \in Runs |-> << >>]
    /\ tr_busy = [c \in Runs |-> [w \in 1..NumWorkers |-> Idle]]
    /\ tr_at = [c \in Runs |-> 0]
    /\ tr_aq = [c \in Runs |-> << >>]
    /\ tr_buf = [c \in Runs |-> << >>]
    /\ tr_stop = [c \in Runs |-> << >>]
    /\ tr_result = [r \in Runs |-> NoResult]

TwoNext ==
    \/ \E r \in Runs : two_generate_sub_questions(r)
    \/ \E c \in Runs, w \in 1..NumWorkers : two_query_llama_cloud_call(c, w)
    \/ \E c \in Runs : two_query_llama_cloud_return(c)
    \/ \E c \in Runs : two_combine_answers(c)
    \/ \E c \in Runs : two_workflow_done(c)

TwoSpec == TwoInit /\ [][TwoNext]_allVars

\* the answers query_llama_cloud can give to the sub-questions of run r
RunAnswers(r) == { QueryAnswer(RunText(r), o) : o \in RetrievalOutcomes }

\* C11: with two runs in flight, each on its thread and each free to take
\* steps while the other stands in a retrieval call, every SubQuestion event
\* waiting for or taken by the retrieval step of the context made for run r
\* (the one standing in the call included), and every Answer
\* event waiting for or buffered by its aggregator, comes from run r; the
\* aggregator of run r never buffers num_questions events or more, and the
\* result of run r is the text of num_questions answers of run r.
C11_RunsIsolated ==
    \A r \in Runs :
        /\ \A i \in 1..Len(tr_q[r]) :
              \A j \in 1..Len(tr_q[r][i].questions) :
                  tr_q[r][i].questions[j] = RunText(r)
        /\ \A w \in 1..NumWorkers :
              tr_busy[r][w] # Idle =>
                  \A j \in 1..Len(tr_busy[r][w].questions) :
                      tr_busy[r][w].questions[j] = RunText(r)
        /\ \A i \in 1..Len(tr_aq[r]) : tr_aq[r][i] \in RunAnswers(r)
        /\ \A i \in 1..Len(tr_buf[r]) : tr_buf[r][i] \in RunAnswers(r)
        /\ Len(tr_buf[r]) < tr_n[r]
        /\ tr_status[r] = "complete" =>
              \E evs \in [1..tr_n[r] -> RunAnswers(r)] :
                  tr_result[r] = CombinedAnswer(evs)

\* both runs are under way: each aggregator has buffered an answer while
\* an event of each run still waits for the retrieval step, and run 2 has
\* got that far while a task of run 1 stands in its second retrieval call
C11_Witness ==
    /\ tr_status = [r \in Runs |-> "running"]
    /\ \A r \in Runs : tr_buf[r] # << >> /\ tr_q[r] # << >>
    /\ Len(tr_q[1]) < Len(tr_q[2])
    /\ tr_at[1] # 0 /\ tr_at[2] = 0

\* C23: whatever num_questions is, at most 3 tasks invoke query_llama_cloud
\* in a run, and no invocation holds an event when another step runs (every
\* event taken has been answered), so at most 3 invocations are in flight at
\* any moment; generate_sub_questions is invoked at most once in the run
\* (combine_answers has no await either: each of its invocations is over
\* before any other step runs).
C23_AtMostThreeInFlight ==
    /\ Cardinality({ w \in DOMAIN workers : workers[w] # Idle }) <= 3
    /\ Len(handled) = Len(answered)
    /\ llm_calls <= 1

\* num_questions = 3: each of the three tasks has taken an event, and the
\* fourth event was taken by a task that had handled one before
C23_Witness ==
    /\ num_questions = 3
    /\ Cardinality({ w \in DOMAIN workers : workers[w] # Idle }) = 3
    /\ Len(handled) = 4

\* ------------------------------------------- Part 3, further specifications
\* every await of generate_luma_video and poll_generation comes back: a
\* service call returns or raises, a sleep ends
LumaFairSpec == LumaSpec /\ WF_allVars(LumaNext)

\* generate_luma_video or extend_video has just been called
AssetInit ==
    /\ RagIdle
    /\ PqIdle
    /\ RetryIdle /\ TextIdle /\ TwoIdle /\ VideoIdle
    /\ lm_fn \in LumaFunctions
    /\ lm_pc = "call"
    /\ lm_try = 1
    /\ lm_jobs = 0
    /\ lm_attempt = 0
    /\ lm_polls = 0
    /\ lm_proc = 0
    /\ lm_errs = 0
    /\ lm_lastPoll = NoStatus
    /\ lm_exit = "none"
    /\ lm_final = "none"
    /\ lm_exc = NoException
    /\ lm_prev_exit = "none"
    /\ lm_value = NoResult

AssetSpec == AssetInit /\ [][LumaNext]_allVars

\* C24: one call of generate_luma_video makes at most 5 create calls and at
\* most 30 status queries in poll_generation per job; a create call other
\* than the first is made only when the attempt before it raised; and the
\* call ends, having returned a video asset or raised.
C24_BoundedAndTerminates ==
    /\ [](lm_jobs <= 5 /\ lm_polls <= 30)
    /\ [][(lm_jobs' # lm_jobs) =>
             /\ lm_jobs' = lm_jobs + 1
             /\ lm_jobs > 0 => (lm_exc # NoException /\ lm_try = lm_jobs + 1)]_allVars
    /\ <>(\/ lm_pc = "returned" /\ lm_value = Asset(lm_jobs)
          \/ lm_pc = "raised" /\ lm_value = RetryError(lm_exc))

\* the fifth job was polled 30 times and never completed: the call raised
C24_Witness ==
    /\ lm_pc = "raised"
    /\ lm_jobs = 5
    /\ lm_polls = 30
    /\ lm_exit = "max"

\* C25: an exception of a status query in poll_generation does not leave
\* poll_generation: it uses up one round of the loop like a status that is
\* neither completed nor failed, polling goes on, and one poll_generation
\* call makes at most max_attempts status queries, raising ones included.
C25_QueryErrorsSwallowed ==
    /\ lm_polls <= MAX_ATTEMPTS
    /\ lm_proc + lm_errs = lm_attempt + (IF lm_pc = "sleep" THEN 1 ELSE 0)
    /\ lm_polls \in { lm_attempt, lm_attempt + 1 }
    /\ lm_pc \in {"poll", "sleep"} => lm_polls = lm_proc + lm_errs
    /\ lm_exc = ClientError => (lm_exit = "create" \/ lm_final = "raised")
    /\ (lm_pc \in {"poll", "sleep"} /\ lm_errs > 0) => lm_exit = "none"

\* 29 status queries raised and the 30th reported "completed"
C25_Witness ==
    /\ lm_errs = 29
    /\ lm_polls = 30
    /\ lm_exit = "completed"
    /\ lm_pc = "returned"

\* C26: generate_luma_video and extend_video return an asset only when the
\* status query made after poll_generation reports "completed", and the asset
\* is the one of the job just polled; when that query reports another state
\* the attempt raises the function's own exception and nothing is returned
\* for that job.
C26_AssetOnlyFromCompleted ==
    /\ lm_pc = "returned" =>
          /\ lm_final = "completed"
          /\ lm_exit = "completed"
          /\ lm_value = Asset(lm_jobs)
    /\ lm_final \in (GenerationStates \ {"completed"}) =>
          /\ lm_pc \in {"call", "raised"}
          /\ lm_fn = "generate_luma_video" => lm_exc = FinalStateError(lm_final)
          /\ lm_fn = "extend_video" => lm_exc = ExtensionStateError(lm_final)
          /\ lm_pc = "raised" => lm_value = RetryError(lm_exc)
    /\ lm_pc # "returned" => lm_value \notin { Asset(j) : j \in 0..lm_jobs }

\* extend_video: polling saw "completed" but the status read after it said
\* "dreaming"; the attempt raised and a second one is pending
C26_Witness ==
    /\ lm_fn = "extend_video"
    /\ lm_exit = "completed"
    /\ lm_final = "dreaming"
    /\ lm_pc = "call"
    /\ lm_try = 2

(***************************************************************************)
(* Part 7: format_timestamp and write_srt.                                 *)
(*                                                                         *)
(* A time in seconds is held as a whole number of ticks of 0.1 ms, so that *)
(* int(seconds * 1000) has a fraction to cut off.  The time the code is    *)
(* given is the binary float next to ticks / 10000, and the product with   *)
(* 1000 is rounded to a binary float again before int() cuts it.           *)
(***************************************************************************)

\* longest list of segments written
MaxSegments == 2

\* ticks per millisecond
TicksPerMs == 10

\* the parties of the model that are not the video pipeline are not running
OthersIdle ==
    RagIdle /\ PqIdle /\ LumaIdle /\ RetryIdle /\ TextIdle /\ TwoIdle

\* floor(log2(n)), for n >= 1
RECURSIVE Log2Floor(_)
Log2Floor(n) == IF n < 2 THEN 0 ELSE 1 + Log2Floor(n \div 2)

\* how often t has to be doubled to reach 1000
RECURSIVE DoublingsTo1000(_)
DoublingsTo1000(t) == IF t >= 1000 THEN 0 ELSE 1 + DoublingsTo1000(2 * t)

\* 2^k
RECURSIVE Pow2(_)
Pow2(k) == IF k = 0 THEN 1 ELSE 2 * Pow2(k - 1)

\* 2^k modulo 1000
RECURSIVE Pow2Mod1000(_)
Pow2Mod1000(k) == IF k = 0 THEN 1 ELSE (2 * Pow2Mod1000(k - 1)) % 1000

\* the binary exponent of the float seconds = t / 1000, for t >= 1
SecondsExponent(t) ==
    IF t >= 1000 THEN Log2Floor(t \div 1000) ELSE 0 - DoublingsTo1000(t)

\* int(seconds * 1000) for the float seconds next to t / 1000, t whole
\* milliseconds.  With a mantissa of 52 fraction bits, seconds is
\* m / 2^k for k = 52 - SecondsExponent(t) and m the whole number next to
\* t * 2^k / 1000; rest is what the division leaves.  When m was rounded
\* down the exact product m * 1000 / 2^k lies rest / 2^k below t, and it is
\* rounded to the float below t, and cut to t - 1, when that is more than
\* half the distance between t and the float below it.
FloatProductMs(t) ==
    IF t = 0 THEN 0
    ELSE LET k == 52 - SecondsExponent(t)
             rest == ((t % 1000) * Pow2Mod1000(k)) % 1000
             gap == Pow2(Log2Floor(t) - SecondsExponent(t))
                       \div (IF Pow2(Log2Floor(t)) = t THEN 2 ELSE 1)
         IN  IF rest = 0 \/ rest >= 500 THEN t
             ELSE IF 2 * rest > gap THEN t - 1
             ELSE t

\* total_milliseconds = int(seconds * 1000)
TotalMilliseconds(ticks) ==
    IF ticks % TicksPerMs # 0 THEN ticks \div TicksPerMs
    ELSE FloatProductMs(ticks \div TicksPerMs)

\* hours = total_milliseconds // (3600 * 1000)
Hours(t) == t \div (3600 * 1000)

\* minutes = (total_milliseconds % (3600 * 1000)) // (60 * 1000)
Minutes(t) == (t % (3600 * 1000)) \div (60 * 1000)

\* secs = (total_milliseconds % (60 * 1000)) // 1000
Secs(t) == (t % (60 * 1000)) \div 1000

\* milliseconds = total_milliseconds % 1000
Milliseconds(t) == t % 1000

\* f"{n:0{width}d}": str(n), filled with zeros on the left up to width
RECURSIVE ZeroFill(_, _)
ZeroFill(digits, width) ==
    IF Len(digits) >= width THEN digits ELSE ZeroFill(<<"0">> \o digits, width)

\* format_timestamp(seconds)
format_timestamp(ticks) ==
    LET t == TotalMilliseconds(ticks)
    IN  ZeroFill(IntToStr(Hours(t)), 2) \o <<":">>
          \o ZeroFill(IntToStr(Minutes(t)), 2) \o <<":">>
          \o ZeroFill(IntToStr(Secs(t)), 2) \o <<",">>
          \o ZeroFill(IntToStr(Milliseconds(t)), 3)

\* the characters str.strip() and str.split() take for whitespace: tab, line
\* feed, vertical tab, form feed, carriage return, the separators
\* U+001C..U+001F, the blank, U+0085, U+00A0 and U+1680.  (The whitespace
\* of U+2000..U+200A, U+2028, U+2029, U+202F, U+205F and U+3000 cannot be
\* written in a string of this language; no text of the model holds it.)
Whitespace ==
    { "\t", "\n", "", "\f", "\r", "", "", "", "", " ",
      "", " ", " " }

\* text.strip()
RECURSIVE Strip(_)
Strip(text) ==
    IF text = << >> THEN text
    ELSE IF Head(text) \in Whitespace THEN Strip(Tail(text))
    ELSE IF text[Len(text)] \in Whitespace THEN Strip(SubSeq(text, 1, Len(text) - 1))
    ELSE text

\* the lines write_srt writes for segment number i (from 0) of the list
SrtBlock(i, segment) ==
    << IntToStr(i + 1),
       format_timestamp(segment.start) \o <<" ", "-", "-", ">", " ">>
           \o format_timestamp(segment.end),
       Strip(segment.text),
       << >> >>

\* times, in ticks, on and around the borders of the fields
TimeSamples ==
    { 0, 9, 9990, 10005, 10010, 20100, 599999, 600000, 35999990, 36000000,
      36610019, 900000000 }

\* how long a segment lasts, in ticks
SegmentTicks == 15005

SegmentTexts == { <<"a">>, <<"\r", " ", "b", "\r", "c", "\f", "\n">> }

SegmentSamples ==
    { [start |-> t, end |-> t + SegmentTicks, text |-> x] :
        t \in TimeSamples, x \in SegmentTexts }

\* one round of the loop of write_srt
write_srt_segment ==
    /\ sr_pc = "writing"
    /\ sr_i < Len(sr_segments)
    /\ sr_file' = sr_file \o SrtBlock(sr_i, sr_segments[sr_i + 1])
    /\ sr_i' = sr_i + 1
    /\ UNCHANGED << sr_pc, sr_segments >>
    /\ UNCHANGED exceptSrt

\* the loop is over and the file is closed
write_srt_close ==
    /\ sr_pc = "writing"
    /\ sr_i = Len(sr_segments)
    /\ sr_pc' = "closed"
    /\ UNCHANGED << sr_segments, sr_i, sr_file >>
    /\ UNCHANGED exceptSrt

\* write_srt has been called with up to MaxSegments segments
SrtInit ==
    /\ OthersIdle
    /\ SplitIdle /\ MainIdle /\ FinalIdle
    /\ sr_pc = "writing"
    /\ sr_segments \in SeqsUpTo(SegmentSamples, MaxSegments)
    /\ sr_i = 0
    /\ sr_file = << >>

SrtNext ==
    \/ write_srt_segment
    \/ write_srt_close

SrtSpec == SrtInit /\ [][SrtNext]_allVars

\* the number a text of decimal digits stands for
DigitValue(c) == CHOOSE d \in 0..9 : Digit(d) = c

RECURSIVE NumberOf(_)
NumberOf(digits) ==
    IF digits = << >> THEN 0
    ELSE 10 * NumberOf(SubSeq(digits, 1, Len(digits) - 1))
           + DigitValue(digits[Len(digits)])

\* the fields of a timestamp text "H..H:MM:SS,mmm", read from its end
FieldsOf(stamp) ==
    LET n == Len(stamp)
    IN  [hours |-> NumberOf(SubSeq(stamp, 1, n - 10)),
         minutes |-> NumberOf(SubSeq(stamp, n - 8, n - 7)),
         seconds |-> NumberOf(SubSeq(stamp, n - 5, n - 4)),
         milliseconds |-> NumberOf(SubSeq(stamp, n - 2, n)),
         marks |-> << stamp[n - 9], stamp[n - 6], stamp[n - 3] >>]

\* the fields of a timestamp text are in range and add up to t milliseconds
StampIs(stamp, t) ==
    LET f == FieldsOf(stamp)
    IN  /\ Len(stamp) >= 12
        /\ f.marks = << ":", ":", "," >>
        /\ f.minutes < 60
        /\ f.seconds < 60
        /\ f.milliseconds < 1000
        /\ f.hours * 3600000 + f.minutes * 60000 + f.seconds * 1000
              + f.milliseconds = t

\* C29: for every time of t whole milliseconds format_timestamp writes
\* hours, minutes < 60, seconds < 60 and milliseconds < 1000 that add up to
\* t (of a time between two milliseconds, to the one below), and write_srt numbers the
\* blocks 1..n in the order of the segments, each with the times and the
\* stripped text of its segment.
C29_TimestampFieldsAndNumbering ==
    /\ Len(sr_file) = 4 * sr_i
    /\ \A k \in 1..sr_i :
          LET seg == sr_segments[k]
              times == sr_file[4 * k - 2]
              n == Len(times)
          IN  /\ NumberOf(sr_file[4 * k - 3]) = k
              /\ sr_file[4 * k - 3] = IntToStr(k)
              /\ StampIs(SubSeq(times, 1, Len(format_timestamp(seg.start))),
                         seg.start \div 10)
              /\ StampIs(SubSeq(times, Len(format_timestamp(seg.start)) + 6, n),
                         seg.end \div 10)
              /\ SubSeq(times, Len(format_timestamp(seg.start)) + 1,
                               Len(format_timestamp(seg.start)) + 5)
                    = <<" ", "-", "-", ">", " ">>
              /\ sr_file[4 * k - 1] \in { <<"a">>, <<"b", "\r", "c">> }
              /\ sr_file[4 * k] = << >>
    /\ sr_pc = "closed" => sr_i = Len(sr_segments)

(***************************************************************************)
(* Part 8: split_script and extract_descriptions.                          *)
(***************************************************************************)

\* longest script, in characters
MaxScriptLen == 5

\* largest num_images
MaxParts == 3

ScriptChars == { "a", "b", " ", "\r" }

\* the first word of a text that starts with no whitespace
RECURSIVE FirstWord(_)
FirstWord(text) ==
    IF text = << >> \/ Head(text) \in Whitespace THEN << >>
    ELSE << Head(text) >> \o FirstWord(Tail(text))

\* script.split(): the runs of characters between whitespace
RECURSIVE Words(_)
Words(text) ==
    IF text = << >> THEN << >>
    ELSE IF Head(text) \in Whitespace THEN Words(Tail(text))
    ELSE << FirstWord(text) >>
            \o Words(SubSeq(text, Len(FirstWord(text)) + 1, Len(text)))

\* words[start:end], for 0 <= start
Slice(seq, start, end) ==
    SubSeq(seq, start + 1, IF end < Len(seq) THEN end ELSE Len(seq))

PartEnd_NoRemainder(i, num_parts, start_index, words_per_part, num_words) ==
    start_index + words_per_part

\* end_index of part i (from 0), line 25
PartEnd(i, num_parts, start_index, words_per_part, num_words) ==
    IF i # num_parts - 1 THEN start_index + words_per_part ELSE num_words

\* split_script(script, num_parts), for num_parts >= 1
split_script(script, num_parts) ==
    LET words == Words(script)
        num_words == Len(words)
        words_per_part == num_words \div num_parts
    IN  [k \in 1..num_parts |->
            LET i == k - 1
                start_index == i * words_per_part
                end_index == PartEnd(i, num_parts, start_index,
                                     words_per_part, num_words)
            IN  Join(<<" ">>, Slice(words, start_index, end_index))]

\* the SceneDescription parsed from the completion for part number idx
SceneDescription(idx) ==
    [image_description |-> <<"i">> \o IntToStr(idx),
     video_description |-> <<"v">> \o IntToStr(idx)]

\* message.parsed of a completion that was refused
NoScene == [parsed |-> "None"]

\* ScriptAnalysis(scenes=scenes)
ScriptAnalysis(scenes) == [scenes |-> scenes]

\* num_words // num_parts with num_parts = 0
ZeroDivisionError == [exc |-> "ZeroDivisionError"]

\* pydantic's error for a scene that is None
ValidationError == [exc |-> "ValidationError"]

\* an exception of the completion service or its client
OpenAIError == [exc |-> "OpenAIError"]

\* extract_descriptions up to the loop: the client is made, the script split
extract_descriptions_split ==
    /\ sp_pc = "call"
    /\ \E client_ok \in BOOLEAN :
        IF ~client_ok
        THEN /\ sp_pc' = "raised"
             /\ sp_value' = OpenAIError
             /\ UNCHANGED sp_parts
        ELSE IF sp_num = 0
        THEN /\ sp_pc' = "raised"
             /\ sp_value' = ZeroDivisionError
             /\ UNCHANGED sp_parts
        ELSE /\ sp_pc' = "scenes"
             /\ sp_parts' = split_script(sp_script, sp_num)
             /\ UNCHANGED sp_value
    /\ UNCHANGED << sp_script, sp_num, sp_scenes >>
    /\ UNCHANGED exceptSplit

\* one round of the loop: the completion for the next part
extract_descriptions_scene ==
    /\ sp_pc = "scenes"
    /\ Len(sp_scenes) < Len(sp_parts)
    /\ \E outcome \in { "parsed", "none", "raises" } :
        CASE outcome = "parsed" ->
                /\ sp_scenes' = Append(sp_scenes, SceneDescription(Len(sp_scenes) + 1))
                /\ UNCHANGED << sp_pc, sp_value >>
          [] outcome = "none" ->
                /\ sp_scenes' = Append(sp_scenes, NoScene)
                /\ UNCHANGED << sp_pc, sp_value >>
          [] OTHER ->
                /\ sp_pc' = "raised"
                /\ sp_value' = OpenAIError
                /\ UNCHANGED sp_scenes
    /\ UNCHANGED << sp_script, sp_num, sp_parts >>
    /\ UNCHANGED exceptSplit

\* the loop is over: ScriptAnalysis(scenes=scenes) is built and returned
extract_descriptions_return ==
    /\ sp_pc = "scenes"
    /\ Len(sp_scenes) = Len(sp_parts)
    /\ IF \E i \in 1..Len(sp_scenes) : sp_scenes[i] = NoScene
       THEN /\ sp_pc' = "raised"
            /\ sp_value' = ValidationError
       ELSE /\ sp_pc' = "returned"
            /\ sp_value' = ScriptAnalysis(sp_scenes)
    /\ UNCHANGED << sp_script, sp_num, sp_parts, sp_scenes >>
    /\ UNCHANGED exceptSplit

\* extract_descriptions has been called with a script and num_images
SplitInit ==
    /\ OthersIdle
    /\ SrtIdle /\ MainIdle /\ FinalIdle
    /\ sp_pc = "call"
    /\ sp_script \in SeqsUpTo(ScriptChars, MaxScriptLen)
    /\ sp_num \in 0..MaxParts
    /\ sp_parts = << >>
    /\ sp_scenes = << >>
    /\ sp_value = NoResult

SplitNext ==
    \/ extract_descriptions_split
    \/ extract_descriptions_scene
    \/ extract_descriptions_return

SplitSpec == SplitInit /\ [][SplitNext]_allVars

\* the words of the parts, one part after the other
RECURSIVE WordsOfParts(_)
WordsOfParts(parts) ==
    IF parts = << >> THEN << >>
    ELSE Words(Head(parts)) \o WordsOfParts(Tail(parts))

\* C27: for num_parts >= 1 split_script returns num_parts parts whose words,
\* taken in order, are the words of the script; every part but the last has
\* floor(W / num_parts) words and the last has the rest; and when
\* extract_descriptions returns, it returns num_images scenes.
C27_SplitKeepsWords ==
    LET W == Len(Words(sp_script))
    IN  /\ sp_pc \in {"scenes", "returned"} =>
              /\ sp_num >= 1
              /\ Len(sp_parts) = sp_num
              /\ WordsOfParts(sp_parts) = Words(sp_script)
              /\ \A k \in 1..(sp_num - 1) :
                    Len(Words(sp_parts[k])) = W \div sp_num
              /\ Len(Words(sp_parts[sp_num]))
                    = W - (sp_num - 1) * (W \div sp_num)
        /\ sp_pc = "returned" =>
              /\ Len(sp_value.scenes) = sp_num
              /\ \A k \in 1..sp_num : sp_value.scenes[k] = SceneDescription(k)

\* "a b a" in two parts: one word, then the two words left over
C27_Witness ==
    /\ sp_pc = "returned"
    /\ sp_script = << "a", " ", "b", " ", "a" >>
    /\ sp_num = 2
    /\ sp_parts = << << "a" >>, << "b", " ", "a" >> >>

(***************************************************************************)
(* Part 9: process_main_video.                                             *)
(*                                                                         *)
(* The audio duration is held in whole milliseconds.  Every call to a      *)
(* service, a download or ffmpeg either comes back or raises; nothing in   *)
(* process_main_video catches an exception except the ValidationError of   *)
(* extract_descriptions, which is raised again under another message.      *)
(***************************************************************************)

\* largest number of scenes of a main video
MaxScenes == 3

\* the scripts of the main video
MainScripts == { << "a" >>, << "a", " ", "b", " ", "a", " ", "b" >> }

\* audio durations, in milliseconds, on both sides of each multiple of 5 s
DurationSamples ==
    { 0 } \cup { 5000 * k - 4999 : k \in 1..MaxScenes }
          \cup { 5000 * k : k \in 1..MaxScenes }

\* math.ceil(audio_duration / 5)
NumImages(duration) == (duration + 4999) \div 5000

\* an exception of a service, a download or ffmpeg, raised by the call `op`
CallError(op) == [exc |-> "Exception", raised_by |-> op]

\* Exception(f"Script analysis failed: {ve}")
ScriptAnalysisFailed == [exc |-> "Exception", msg |-> "Script analysis failed: "]

\* Exception(f"Number of scenes ({...}) does not match the expected number of images ({...})")
SceneCountError(scenes, images) ==
    [exc |-> "Exception", msg |-> "Number of scenes does not match",
     scenes |-> scenes, images |-> images]

\* the URL generate_image returns for scene i
ImageUrl(i) == [image_of_scene |-> i]

\* the URL generate_luma_video returns for scene i
VideoUrl(i) == [video_of_scene |-> i]

\* video_file_path of scene i
VideoPath(i) == [clip_of_scene |-> i]

\* final_video_path
FinalVideoPath(clips) == [final_of |-> clips]

\* one call made for a scene
SceneCall(op, i, arg) == [op |-> op, scene |-> i, arg |-> arg]

AppendClip_Front(video_paths, path) == << path >> \o video_paths

\* video_paths.append(video_file_path)
AppendClip(video_paths, path) == Append(video_paths, path)

\* process_main_video fails with exc
main_fails(exc) ==
    /\ mv_pc' = "failed"
    /\ mv_value' = exc

\* lines 239-242: the TTS model is made and the narration generated and saved.
\* As a task of generate_final_video it is created after talking_head_task
\* (lines 43-44), and the event loop starts its tasks in the order of their
\* creation: it starts once that task has run up to its await
main_tts ==
    /\ mv_pc = "call"
    /\ fv_th # "created"
    /\ \E raises \in BOOLEAN :
        IF raises
        THEN main_fails(CallError("tts"))
        ELSE /\ mv_pc' = "audio"
             /\ UNCHANGED mv_value
    /\ UNCHANGED << mv_script, mv_duration, mv_num_images, mv_scenes, mv_i,
                    mv_log, mv_video_paths, mv_combined >>
    /\ UNCHANGED exceptMain

\* lines 245-247: the narration is downloaded
main_download_audio ==
    /\ mv_pc = "audio"
    /\ \E raises \in BOOLEAN :
        IF raises
        THEN main_fails(CallError("download_audio"))
        ELSE /\ mv_pc' = "duration"
             /\ UNCHANGED mv_value
    /\ UNCHANGED << mv_script, mv_duration, mv_num_images, mv_scenes, mv_i,
                    mv_log, mv_video_paths, mv_combined >>
    /\ UNCHANGED exceptMain

\* lines 249-255: the duration is measured and num_images computed
main_duration ==
    /\ mv_pc = "duration"
    /\ \E raises \in BOOLEAN :
        IF raises
        THEN /\ main_fails(CallError("get_audio_duration"))
             /\ UNCHANGED << mv_duration, mv_num_images >>
        ELSE \E duration \in DurationSamples :
                /\ mv_duration' = duration
                /\ mv_num_images' = NumImages(duration)
                /\ mv_pc' = "analyse"
                /\ UNCHANGED mv_value
    /\ UNCHANGED << mv_script, mv_scenes, mv_i, mv_log, mv_video_paths,
                    mv_combined >>
    /\ UNCHANGED exceptMain

\* lines 257-266: extract_descriptions and the check of the scene count
main_analyse ==
    /\ mv_pc = "analyse"
    /\ \E outcome \in { "returns", "ValidationError", "OpenAIError" } :
        IF outcome = "OpenAIError"
        THEN /\ main_fails(OpenAIError)
             /\ UNCHANGED << mv_scenes, mv_i >>
        ELSE IF mv_num_images = 0
        THEN /\ main_fails(ZeroDivisionError)
             /\ UNCHANGED << mv_scenes, mv_i >>
        ELSE IF outcome = "ValidationError"
        THEN /\ main_fails(ScriptAnalysisFailed)
             /\ UNCHANGED << mv_scenes, mv_i >>
        ELSE LET parts == split_script(mv_script, mv_num_images)
                 scenes == [k \in 1..Len(parts) |-> SceneDescription(k)]
             IN  IF Len(scenes) # mv_num_images
                 THEN /\ main_fails(SceneCountError(Len(scenes), mv_num_images))
                      /\ UNCHANGED << mv_scenes, mv_i >>
                 ELSE /\ mv_scenes' = scenes
                      /\ mv_i' = 1
                      /\ mv_pc' = "image"
                      /\ UNCHANGED mv_value
    /\ UNCHANGED << mv_script, mv_duration, mv_num_images, mv_log,
                    mv_video_paths, mv_combined >>
    /\ UNCHANGED exceptMain

\* one call of the loop body for scene mv_i: `op` is made with `arg`, and
\* the loop moves on to `next` unless the call raises
main_scene_call(at, op, arg, next) ==
    /\ mv_pc = at
    /\ mv_log' = Append(mv_log, SceneCall(op, mv_i, arg))
    /\ \E raises \in BOOLEAN :
        IF raises
        THEN main_fails(CallError(op))
        ELSE /\ mv_pc' = next
             /\ UNCHANGED mv_value
    /\ UNCHANGED << mv_script, mv_duration, mv_num_images, mv_scenes, mv_i,
                    mv_video_paths, mv_combined >>
    /\ UNCHANGED exceptMain

\* line 273: generate_image(scene.image_description)
main_generate_image ==
    main_scene_call("image", "generate_image",
                    mv_scenes[mv_i].image_description, "download_image")

\* line 278: download_file(image_url, image_file_path)
main_download_image ==
    main_scene_call("download_image", "download_image", ImageUrl(mv_i), "video")

\* lines 283-287: generate_luma_video(prompt, start_image_url, ...)
main_generate_video ==
    main_scene_call("video", "generate_luma_video",
                    << mv_scenes[mv_i].video_description, ImageUrl(mv_i) >>,
                    "download_video")

\* lines 291-294: the video is downloaded and its path appended; the loop
\* goes to the next scene or ends
main_download_video ==
    /\ mv_pc = "download_video"
    /\ mv_log' = Append(mv_log, SceneCall("download_video", mv_i, VideoUrl(mv_i)))
    /\ \E raises \in BOOLEAN :
        IF raises
        THEN /\ main_fails(CallError("download_video"))
             /\ UNCHANGED << mv_video_paths, mv_i >>
        ELSE /\ mv_video_paths' = AppendClip(mv_video_paths, VideoPath(mv_i))
             /\ IF mv_i < Len(mv_scenes)
                THEN /\ mv_i' = mv_i + 1
                     /\ mv_pc' = "image"
                ELSE /\ mv_pc' = "combine"
                     /\ UNCHANGED mv_i
             /\ UNCHANGED mv_value
    /\ UNCHANGED << mv_script, mv_duration, mv_num_images, mv_scenes,
                    mv_combined >>
    /\ UNCHANGED exceptMain

\* lines 297-298: combine_videos(video_paths, combined_video_path)
main_combine ==
    /\ mv_pc = "combine"
    /\ mv_combined' = mv_video_paths
    /\ \E raises \in BOOLEAN :
        IF raises
        THEN main_fails(CallError("combine_videos"))
        ELSE /\ mv_pc' = "add_audio"
             /\ UNCHANGED mv_value
    /\ UNCHANGED << mv_script, mv_duration, mv_num_images, mv_scenes, mv_i,
                    mv_log, mv_video_paths >>
    /\ UNCHANGED exceptMain

\* lines 301-314: the audio is added and the path of the result returned
main_add_audio ==
    /\ mv_pc = "add_audio"
    /\ \E raises \in BOOLEAN :
        IF raises
        THEN main_fails(CallError("add_audio_to_video"))
        ELSE /\ mv_pc' = "returned"
             /\ mv_value' = FinalVideoPath(mv_combined)
    /\ UNCHANGED << mv_script, mv_duration, mv_num_images, mv_scenes, mv_i,
                    mv_log, mv_video_paths, mv_combined >>
    /\ UNCHANGED exceptMain

\* process_main_video has been called with a script
MainInit ==
    /\ OthersIdle
    /\ SrtIdle /\ SplitIdle /\ FinalIdle
    /\ mv_pc = "call"
    /\ mv_script \in MainScripts
    /\ mv_duration = 0
    /\ mv_num_images = 0
    /\ mv_scenes = << >>
    /\ mv_i = 0
    /\ mv_log = << >>
    /\ mv_video_paths = << >>
    /\ mv_combined = << >>
    /\ mv_value = NoResult

MainNext ==
    \/ main_tts
    \/ main_download_audio
    \/ main_duration
    \/ main_analyse
    \/ main_generate_image
    \/ main_download_image
    \/ main_generate_video
    \/ main_download_video
    \/ main_combine
    \/ main_add_audio

MainSpec == MainInit /\ [][MainNext]_allVars

\* the calls of one scene, in the order of the loop body
SceneOps ==
    << "generate_image", "download_image", "generate_luma_video", "download_video" >>

\* C28: the calls made for the scenes come scene by scene in script order,
\* and within a scene in the order image, image download, video (from that
\* scene's image), video download, so that no call for scene i+1 comes
\* before the video of scene i was downloaded; combine_videos is given one
\* clip per scene, in scene order, after the last scene.
C28_ScenesInOrder ==
    /\ \A p \in 1..Len(mv_log) :
          /\ mv_log[p].scene = ((p - 1) \div 4) + 1
          /\ mv_log[p].op = SceneOps[((p - 1) % 4) + 1]
          /\ mv_log[p].scene <= mv_num_images
          /\ mv_log[p].op = "generate_luma_video" =>
                mv_log[p].arg[2] = [image_of_scene |-> mv_log[p].scene]
    /\ \A k \in 1..Len(mv_video_paths) :
          /\ mv_video_paths[k] = [clip_of_scene |-> k]
          /\ 4 * k <= Len(mv_log)
    /\ mv_pc \in {"add_audio", "returned"} =>
          /\ Len(mv_log) = 4 * mv_num_images
          /\ mv_combined = [k \in 1..mv_num_images |-> [clip_of_scene |-> k]]
    /\ mv_combined # << >> => Len(mv_combined) = mv_num_images

\* a main video of three scenes has been put together
C28_Witness ==
    /\ mv_pc = "returned"
    /\ mv_num_images = 3
    /\ Len(mv_log) = 12
    /\ mv_value = FinalVideoPath(mv_combined)

(***************************************************************************)
(* Part 10: generate_final_video.                                          *)
(*                                                                         *)
(* main_video_task runs process_main_video: its steps are the actions of   *)
(* Part 9.  talking_head_task runs process_talking_head, which gives up    *)
(* control once, while it awaits the narration.  The two tasks are         *)
(* interleaved freely; generate_final_video itself waits in asyncio.gather *)
(* and goes on alone once both tasks are done.  A task that is still       *)
(* running when the other one fails is not cancelled by gather.            *)
(***************************************************************************)

\* the URLs upload_file_to_r2 can return
FinalUrls == { [final_video_url |-> k] : k \in 1..2 }

\* video_url returned by talking_head
TalkingHeadUrl == [talking_head_video |-> "url"]

\* talking_head_video_path, once the video is downloaded
TalkingHeadPath == [downloaded |-> TalkingHeadUrl]

\* state of main_video_task
MainTask ==
    IF mv_pc = "returned" THEN "done"
    ELSE IF mv_pc = "failed" THEN "failed"
    ELSE "running"

\* asyncio.gather(a, b) raises when one of the tasks has raised
GatherRaises(th, mv) == th = "failed" \/ mv = "failed"

\* asyncio.gather(a, b) returns when both tasks are over and it does not raise
GatherReturns(th, mv) ==
    /\ ~GatherRaises(th, mv)
    /\ th \in {"done", "failed"}
    /\ mv \in {"done", "failed"}

CombineInput_MainFirst(intro, main) == << main, intro >>

\* [talking_head_video_path, main_video_path]
CombineInput(intro, main) == << intro, main >>

\* one stage of generate_final_video after the gather
Stage(name, outcome) == [stage |-> name, outcome |-> outcome]

\* generate_final_video fails with exc
final_fails(exc) ==
    /\ fv_pc' = "failed"
    /\ fv_value' = exc

\* process_talking_head up to its await: the TTS model is made and the
\* narration requested
talking_head_begin ==
    /\ fv_th = "created"
    /\ fv_seen' = Append(fv_seen, mv_pc)
    /\ \E raises \in BOOLEAN :
        IF raises
        THEN /\ fv_th' = "failed"
             /\ fv_th_value' = CallError("ElevenLabsTTSModel")
        ELSE /\ fv_th' = "tts"
             /\ UNCHANGED fv_th_value
    /\ UNCHANGED << fv_pc, fv_transcribed, fv_log, fv_combined, fv_uploaded,
                    fv_cleaned, fv_value >>
    /\ UNCHANGED exceptFinal

\* process_talking_head after its await: the narration is saved, its
\* duration measured and talking_head called
talking_head_end ==
    /\ fv_th = "tts"
    /\ fv_seen' = Append(fv_seen, mv_pc)
    /\ \E op \in { "none", "tts", "get_audio_duration", "talking_head" } :
        IF op = "none"
        THEN /\ fv_th' = "done"
             /\ fv_th_value' = TalkingHeadUrl
        ELSE /\ fv_th' = "failed"
             /\ fv_th_value' = CallError(op)
    /\ UNCHANGED << fv_pc, fv_transcribed, fv_log, fv_combined, fv_uploaded,
                    fv_cleaned, fv_value >>
    /\ UNCHANGED exceptFinal

\* lines 47-49: the gather raises the exception of a failed task
final_gather_raises ==
    /\ fv_pc = "gather"
    /\ GatherRaises(fv_th, MainTask)
    /\ \/ fv_th = "failed" /\ final_fails(fv_th_value)
       \/ MainTask = "failed" /\ final_fails(mv_value)
    /\ UNCHANGED << fv_th, fv_seen, fv_th_value, fv_transcribed, fv_log,
                    fv_combined, fv_uploaded, fv_cleaned >>
    /\ UNCHANGED exceptFinal

\* lines 47-49: the gather returns the results of both tasks
final_gather_returns ==
    /\ fv_pc = "gather"
    /\ GatherReturns(fv_th, MainTask)
    /\ fv_pc' = "download"
    /\ UNCHANGED << fv_th, fv_seen, fv_th_value, fv_transcribed, fv_log,
                    fv_combined, fv_uploaded, fv_cleaned, fv_value >>
    /\ UNCHANGED exceptFinal

\* lines 52-53: the talking head video is downloaded
final_download ==
    /\ fv_pc = "download"
    /\ \E raises \in BOOLEAN :
        IF raises
        THEN /\ fv_log' = Append(fv_log, Stage("download", "raised"))
             /\ final_fails(CallError("download_file"))
        ELSE /\ fv_log' = Append(fv_log, Stage("download", "ok"))
             /\ fv_pc' = "combine"
             /\ UNCHANGED fv_value
    /\ UNCHANGED << fv_th, fv_seen, fv_th_value, fv_transcribed, fv_combined,
                    fv_uploaded, fv_cleaned >>
    /\ UNCHANGED exceptFinal

\* lines 61-62: combine_videos([talking_head_video_path, main_video_path], ...)
final_combine ==
    /\ fv_pc = "combine"
    /\ fv_combined' = CombineInput(TalkingHeadPath, mv_value)
    /\ \E raises \in BOOLEAN :
        IF raises
        THEN /\ fv_log' = Append(fv_log, Stage("combine", "raised"))
             /\ final_fails(CallError("combine_videos"))
        ELSE /\ fv_log' = Append(fv_log, Stage("combine", "ok"))
             /\ fv_pc' = "transcribe"
             /\ UNCHANGED fv_value
    /\ UNCHANGED << fv_th, fv_seen, fv_th_value, fv_transcribed, fv_uploaded,
                    fv_cleaned >>
    /\ UNCHANGED exceptFinal

\* line 67: generate_transcription(combined_video_path).  The audio
\* extraction, the transcription and the removal of its temporary files
\* raise when they fail; the ffmpeg run that overlays the subtitles is
\* subprocess.run(cmd) without check=True, so its failure raises nothing and
\* the path of the output is returned, whether ffmpeg wrote no file or only
\* a part of it
final_transcribe ==
    /\ fv_pc = "transcribe"
    /\ \E outcome \in { "ok", "raised", "ffmpeg_failed_no_file",
                         "ffmpeg_failed_partial_file" } :
        /\ fv_log' = Append(fv_log, Stage("transcribe", outcome))
        /\ CASE outcome = "raised" ->
                    /\ final_fails(CallError("generate_transcription"))
                    /\ UNCHANGED fv_transcribed
             [] outcome = "ok" ->
                    /\ fv_transcribed' = "good"
                    /\ fv_pc' = "upload"
                    /\ UNCHANGED fv_value
             [] outcome = "ffmpeg_failed_no_file" ->
                    /\ fv_transcribed' = "missing"
                    /\ fv_pc' = "upload"
                    /\ UNCHANGED fv_value
             [] OTHER ->
                    /\ fv_transcribed' = "partial"
                    /\ fv_pc' = "upload"
                    /\ UNCHANGED fv_value
    /\ UNCHANGED << fv_th, fv_seen, fv_th_value, fv_combined, fv_uploaded,
                    fv_cleaned >>
    /\ UNCHANGED exceptFinal

\* line 72: upload_file_to_r2(transcribed_video_path); open() raises when
\* the file is not there
final_upload ==
    /\ fv_pc = "upload"
    /\ \E raises \in BOOLEAN :
        IF raises \/ fv_transcribed = "missing"
        THEN /\ fv_log' = Append(fv_log, Stage("upload", "raised"))
             /\ final_fails(CallError("upload_file_to_r2"))
             /\ UNCHANGED fv_uploaded
        ELSE \E url \in FinalUrls :
                /\ fv_log' = Append(fv_log, Stage("upload", "ok"))
                /\ fv_uploaded' = Append(fv_uploaded, url)
                /\ fv_pc' = "cleanup"
                /\ UNCHANGED fv_value
    /\ UNCHANGED << fv_th, fv_seen, fv_th_value, fv_transcribed, fv_combined,
                    fv_cleaned >>
    /\ UNCHANGED exceptFinal

\* lines 76-81: temp_files
TempFiles ==
    << "talking_head_video_path", "main_video_path", "combined_video_path",
       "transcribed_video_path" >>

\* lines 77-88: the temporary files are removed one after the other and the
\* URL returned; an os.remove that raises ends the function with the files
\* before it deleted
final_cleanup ==
    /\ fv_pc = "cleanup"
    /\ \E deleted \in 0..Len(TempFiles) :
        /\ fv_cleaned' = SubSeq(TempFiles, 1, deleted)
        /\ IF deleted = Len(TempFiles)
           THEN /\ fv_log' = Append(fv_log, Stage("cleanup", "ok"))
                /\ fv_pc' = "returned"
                /\ fv_value' = fv_uploaded[Len(fv_uploaded)]
           ELSE /\ fv_log' = Append(fv_log, Stage("cleanup", "raised"))
                /\ final_fails(CallError("os.remove"))
    /\ UNCHANGED << fv_th, fv_seen, fv_th_value, fv_transcribed, fv_combined,
                    fv_uploaded >>
    /\ UNCHANGED exceptFinal

\* generate_final_video has created its two tasks and awaits the gather
FinalInit ==
    /\ OthersIdle
    /\ SrtIdle /\ SplitIdle
    /\ mv_pc = "call"
    /\ mv_script \in MainScripts
    /\ mv_duration = 0
    /\ mv_num_images = 0
    /\ mv_scenes = << >>
    /\ mv_i = 0
    /\ mv_log = << >>
    /\ mv_video_paths = << >>
    /\ mv_combined = << >>
    /\ mv_value = NoResult
    /\ fv_pc = "gather"
    /\ fv_th = "created"
    /\ fv_seen = << >>
    /\ fv_th_value = NoResult
    /\ fv_transcribed = "none"
    /\ fv_log = << >>
    /\ fv_combined = << >>
    /\ fv_uploaded = << >>
    /\ fv_cleaned = << >>
    /\ fv_value = NoResult

FinalNext ==
    \/ MainNext
    \/ talking_head_begin
    \/ talking_head_end
    \/ final_gather_raises
    \/ final_gather_returns
    \/ final_download
    \/ final_combine
    \/ final_transcribe
    \/ final_upload
    \/ final_cleanup

FinalSpec == FinalInit /\ [][FinalNext]_allVars

\* the stages after the gather, in the order of the code
FinalStages == << "download", "combine", "transcribe", "upload", "cleanup" >>

\* C21: the stages after the gather are started in the order download,
\* combine, transcribe, upload, clean up, none of them before both tasks have
\* completed; combine_videos is given the intro first and the main video
\* second; and the URL returned is the one the upload produced.
C21_StagesInOrder ==
    /\ Len(fv_log) <= 5
    /\ \A p \in 1..Len(fv_log) : fv_log[p].stage = FinalStages[p]
    /\ (fv_log # << >> \/ fv_pc \in {"download", "combine"}) =>
          /\ fv_th = "done"
          /\ mv_pc = "returned"
    /\ fv_combined # << >> =>
          /\ Len(fv_log) >= 2
          /\ fv_combined = << [downloaded |-> fv_th_value], mv_value >>
    /\ fv_pc = "returned" =>
          /\ Len(fv_log) = 5
          /\ Len(fv_uploaded) = 1
          /\ fv_value = fv_uploaded[1]
          /\ fv_cleaned = TempFiles

\* the final video is returned after a run in which the intro task, started
\* first, was given its narration and ended while the main task was at the
\* video of a scene
C21_Witness ==
    /\ fv_pc = "returned"
    /\ fv_seen = << "call", "video" >>
    /\ mv_num_images = 2
    /\ fv_value = [final_video_url |-> 2]

\* C22: when a task or a later stage has failed, generate_final_video fails:
\* nothing is uploaded after the failure, no URL is returned and the
\* clean-up is not run.
C22_FailurePropagates ==
    LET stageFailed ==
            \E p \in 1..Len(fv_log) :
                /\ fv_log[p].stage \in {"download", "combine", "transcribe", "upload"}
                /\ fv_log[p].outcome # "ok"
        taskFailed == fv_th = "failed" \/ mv_pc = "failed"
    IN  /\ taskFailed =>
              /\ fv_pc \in {"gather", "failed"}
              /\ fv_log = << >>
              /\ fv_uploaded = << >>
              /\ fv_cleaned = << >>
        /\ stageFailed =>
              /\ fv_pc \notin {"cleanup", "returned"}
              /\ fv_uploaded = << >>
              /\ fv_cleaned = << >>
        /\ fv_pc = "failed" => DOMAIN fv_value # {"final_video_url"}

====
